---- MODULE Spec2Model ----
(***************************************************************************)
(* FreeRTOS-Helper: the wrapper classes OSTask, OSQueue, OSMutex, Counter   *)
(* and OSTimer over the FreeRTOS kernel.                                    *)
(*                                                                         *)
(* A behaviour is the life of one wrapper object: it is constructed, its   *)
(* methods are invoked by two application tasks and by an interrupt        *)
(* handler, and it is destructed.  Every method invocation is one step     *)
(* (or, when the kernel blocks the caller, one step up to the block and    *)
(* one step for the wake-up or the timeout); `call` keeps what the last    *)
(* step did: the kernel calls it issued, the reschedule requests, the      *)
(* assertion it tripped, the value it returned.                            *)
(***************************************************************************)
EXTENDS Integers, Sequences, FiniteSets, TLC

-----------------------------------------------------------------------------
(* Bounds of the model *)

QueueSize == 2      \* template parameter of OSQueue<QueueSize, T>
MaxCount == 2       \* template parameter of Counter<MaxCount>
MaxCreated == 2     \* kernel objects created by the init() calls of one wrapper
TickBits == 16      \* width of TickType_t and size_t (scaled down from 32)
TimerQueueLength == 1  \* configTIMER_QUEUE_LENGTH of the timer command queue
MaxTick == 1        \* the tick count is followed up to this value
MaxSyncTick == 6    \* the same, where a fixed-rate loop is followed
MaxNotify == 2      \* cap on the task notification value

-----------------------------------------------------------------------------
(* Vocabulary *)

NULL == 0                      \* nullptr
Classes == {"OSTask", "OSQueue", "OSMutex", "Counter", "OSTimer"}
Tasks == {"T1", "T2"}          \* application tasks; T1 is the OSTask's own task
ISR == "isr"                   \* the interrupt handler
Callers == Tasks \cup {ISR}
Vals == 0 .. 1                 \* element type T (bool)
NoVal == -1
NoTicks == -1                  \* kernel call without a wait parameter

FromISRCalls == {"xQueueSendFromISR", "xQueueReceiveFromISR", "xQueuePeekFromISR",
                 "xSemaphoreTakeFromISR", "xSemaphoreGiveFromISR",
                 "xTimerChangePeriodFromISR", "xTimerStartFromISR",
                 "xTimerStopFromISR", "xTimerResetFromISR",
                 "xTimerPendFunctionCallFromISR",
                 "xTaskResumeFromISR", "vTaskNotifyGiveFromISR"}

DeleteCalls == {"vQueueDelete", "vSemaphoreDelete", "xTimerDelete", "vTaskDelete"}

KCall(fn, ticks) == [fn |-> fn, ticks |-> ticks]

-----------------------------------------------------------------------------
(* Tick arithmetic *)

TickMod == 2 ^ TickBits
portMAX_DELAY == TickMod - 1
configTICK_RATE_HZ == 1000
portTICK_PERIOD_MS == 1000 \div configTICK_RATE_HZ

\* pdMS_TO_TICKS: ((TickType_t) ms * (TickType_t) configTICK_RATE_HZ) / 1000
\* in unsigned TickType_t arithmetic
pdMS_TO_TICKS(xTimeInMs) ==
    (((xTimeInMs % TickMod) * (configTICK_RATE_HZ % TickMod)) % TickMod) \div 1000

\* #define portMAX_DELAY_MS (portMAX_DELAY * portTICK_PERIOD_MS)
portMAX_DELAY_MS == (portMAX_DELAY * portTICK_PERIOD_MS) % TickMod

-----------------------------------------------------------------------------
(* State *)

VARIABLES
    cfg,        \* build configuration: NDEBUG, __cplusplus, FreeRTOSConfig.h
    wrapper,    \* class of the wrapper object
    live,       \* the object is constructed and not yet destructed
    queue,      \* OSQueue members
    counter,    \* Counter members
    mutex,      \* OSMutex members
    timer,      \* OSTimer members
    task,       \* OSTask members
    kQueue,     \* kernel queue behind m_xQueueHandler
    kSem,       \* kernel counting semaphore behind m_xCounter
    kMutex,     \* kernel mutex behind m_MutexHandler
    kTimer,     \* kernel timer behind m_xTimerHandler, and the timer command queue
    kTask,      \* kernel task behind m_TaskHandle
    kstat,      \* kernel objects created and deleted for this wrapper
    pend,       \* per caller: the invocation it is blocked in
    call,       \* what the last step did
    aborted     \* an assertion tripped (abort) or the kernel was handed a bad handle

wrapperVars == <<queue, counter, mutex, timer, task>>
kernelVars == <<kQueue, kSem, kMutex, kTimer, kTask>>
vars == <<cfg, wrapper, live, queue, counter, mutex, timer, task,
          kQueue, kSem, kMutex, kTimer, kTask, kstat, pend, call, aborted>>

\* Build configurations.  A flag a class never reads is fixed for that class.
\*   assert     NDEBUG is not defined: assert() is active
\*   cpp17      __cplusplus >= 201703L: the execIsrFunc variant is compiled
\*   static     configSUPPORT_STATIC_ALLOCATION == 1
\*   curHandle  INCLUDE_xTaskGetCurrentTaskHandle == 1
\* INCLUDE_vTaskDelete is read by the destructor of OSTask only, which takes it as
\* its input.
Configs(w) ==
    [assert : BOOLEAN, cpp17 : BOOLEAN, static : BOOLEAN,
     curHandle : IF w = "OSTask" THEN BOOLEAN ELSE {TRUE}]

Idle == [st |-> "idle", op |-> "none", fn |-> "none", ticks |-> 0,
         arg |-> NoVal, pre |-> FALSE]

NoCall == [op |-> "none", ctx |-> "none", st |-> "none", pre |-> FALSE,
           kcalls |-> <<>>, woken |-> FALSE, yields |-> 0, res |-> FALSE,
           out |-> NoVal, arg |-> NoVal]

CallRec(op, c, st, pre, kcalls, woken, yields, res, out, arg) ==
    [op |-> op, ctx |-> c, st |-> st, pre |-> pre, kcalls |-> kcalls,
     woken |-> woken, yields |-> yields, res |-> res, out |-> out, arg |-> arg]

WaitMs == {0, portMAX_DELAY_MS}     \* xMsToWait arguments explored: none, the default
MainCallers == {"T1", ISR}          \* callers of a queue, counter, mutex or timer
MainTasks == {"T1"}
\* pxHigherPriorityTaskWoken is written only by the FromISR kernel functions
Woken(c) == IF c = ISR THEN BOOLEAN ELSE {FALSE}
\* only a task can be preempted by the timer service task
Preempt(c) == IF c = ISR THEN {FALSE} ELSE BOOLEAN

AllIdle == \A c \in Callers : pend[c].st = "idle"

\* caller c may enter a method of the object of class w
CanCall(c, w) == live /\ ~aborted /\ wrapper = w /\ pend[c].st = "idle"

-----------------------------------------------------------------------------
(* Dual-context dispatch: rtos_helper_core.hpp *)

\* xPortIsInsideInterrupt() / xPortInIsrContext()
xPortInIsrContext(c) == c = ISR

\* a yieldFunc that requests a reschedule whatever the status says
yieldFunc_unconditional(status) == 1

\* yieldFunc: portYIELD_FROM_ISR(*status); the number of reschedule requests
yieldFunc(status) == IF status THEN 1 ELSE 0

\* a dispatcher that takes the task branch in every context
execIsrFunc_taskBranch(c, a, b) == a

\* execIsrFunc: a() in task context, b(&xHigherPriorityStatus, yieldFunc) in an ISR
execIsrFunc(c, a, b) == IF ~xPortInIsrContext(c) THEN a ELSE b

\* pre-C++17 variant: if (pdTRUE == xHigherPriorityStatus) portYIELD_FROM_ISR();
legacyYield(status) == IF status THEN 1 ELSE 0

\* the two build variants of a dispatched body: a, b the C++17 lambdas, la, lb the
\* branches of the explicit if/else
dispatch(c, a, b, la, lb) ==
    IF cfg.cpp17 THEN execIsrFunc(c, a, b)
    ELSE IF ~xPortInIsrContext(c) THEN la ELSE lb

\* What a kernel call answers: the object afterwards, the value returned, the
\* pxHigherPriorityTaskWoken it reported, whether the caller has to block, and
\* the value copied out to the caller's buffer
KRes(k, res, woken, block, out) ==
    [k |-> k, res |-> res, woken |-> woken, block |-> block, out |-> out]

\* What a dispatched body did
Outcome(kcalls, woken, yields, r) ==
    [kcalls |-> kcalls, woken |-> woken, yields |-> yields, res |-> r.res,
     out |-> r.out, k |-> r.k, block |-> r.block]

\* assert(...) failed: abort()
Trip(op, c, pre, kcalls, arg) ==
    /\ call' = CallRec(op, c, "asserted", pre, kcalls, FALSE, 0, FALSE, NoVal, arg)
    /\ aborted' = TRUE
    /\ pend' = pend

\* the kernel was handed a null handle, or a task-context kernel call was made
\* inside an interrupt: what happens depends on the port, any value may come back
\* and the program is not followed further
Undefined(op, c, pre, kcalls, arg) ==
    /\ \E r \in BOOLEAN :
          call' = CallRec(op, c, "undefined", pre, kcalls, FALSE, 0, r, NoVal, arg)
    /\ aborted' = TRUE
    /\ pend' = pend

\* return without touching the kernel
Return(op, c, pre, res, out, arg) ==
    /\ call' = CallRec(op, c, "returned", pre, <<>>, FALSE, 0, res, out, arg)
    /\ UNCHANGED <<aborted, pend>>

\* The shape shared by every method that needs the kernel object:
\*     assert(handle); assert(m_initialized == true);
\*     assert(xTaskGetSchedulerState() == taskSCHEDULER_RUNNING);
\*     if (!m_initialized) { return <failRes>; }
\*     <body>
\* o is what the body does on the kernel object, Effect stores it, NoEffect leaves
\* the kernel object alone.
Invoke(op, c, h, inited, arg, failRes, failOut, o, Effect, NoEffect) ==
    LET pre == h # NULL /\ inited IN
    IF cfg.assert /\ ~pre
    THEN Trip(op, c, pre, <<>>, arg) /\ NoEffect
    ELSE IF ~inited
    THEN Return(op, c, pre, failRes, failOut, arg) /\ NoEffect
    ELSE IF h = NULL
    THEN Undefined(op, c, pre, <<>>, arg) /\ NoEffect
    ELSE IF xPortInIsrContext(c) /\ \E i \in DOMAIN o.kcalls : o.kcalls[i].fn \notin FromISRCalls
    THEN Undefined(op, c, pre, o.kcalls, arg) /\ NoEffect
    ELSE IF o.block
    THEN /\ pend' = [pend EXCEPT ![c] =
                       [st |-> "blocked", op |-> op, fn |-> o.kcalls[1].fn,
                        ticks |-> o.kcalls[1].ticks, arg |-> arg, pre |-> pre]]
         /\ call' = CallRec(op, c, "blocked", pre, o.kcalls, FALSE, 0, FALSE, NoVal, arg)
         /\ aborted' = aborted
         /\ NoEffect
    ELSE /\ call' = CallRec(op, c, "returned", pre, o.kcalls, o.woken, o.yields,
                            o.res, o.out, arg)
         /\ UNCHANGED <<aborted, pend>>
         /\ Effect

\* a blocked call returns: the kernel call succeeded (res) or its wait elapsed
Resume(c, res, out) ==
    /\ call' = CallRec(pend[c].op, c, "returned", pend[c].pre,
                       <<KCall(pend[c].fn, pend[c].ticks)>>, FALSE, 0, res, out,
                       pend[c].arg)
    /\ pend' = [pend EXCEPT ![c] = Idle]
    /\ aborted' = aborted

\* lifetime of the kernel objects the wrapper made
NewHandle == IF cfg.static THEN 1 ELSE kstat.created + 1
\* what the create call of init() returns: the new handle, or null when the kernel
\* could not allocate the object
Created(ok) == IF ok THEN NewHandle ELSE NULL
AllocOutcomes == IF cfg.static THEN {TRUE} ELSE BOOLEAN

-----------------------------------------------------------------------------
(* Kernel queue, as the wrapper calls it *)

NoQueue == [exists |-> FALSE, uxLength |-> 0, items |-> <<>>]

\* a queue created with the length of the template parameter, whatever was asked
xQueueCreate_default(uxQueueLength) ==
    [exists |-> TRUE, uxLength |-> QueueSize, items |-> <<>>]

xQueueCreate(uxQueueLength) ==
    [exists |-> TRUE, uxLength |-> uxQueueLength, items |-> <<>>]

uxQueueSpacesAvailable(q) == q.uxLength - Len(q.items)

\* a send that does not look at the length of the queue
xQueueSend_unbounded(q, val, ticks) ==
    KRes([q EXCEPT !.items = Append(@, val)], TRUE, FALSE, FALSE, NoVal)

xQueueSend(q, val, ticks) ==
    IF Len(q.items) < q.uxLength
    THEN KRes([q EXCEPT !.items = Append(@, val)], TRUE, FALSE, FALSE, NoVal)
    ELSE KRes(q, FALSE, FALSE, ticks # 0, NoVal)

\* a send from an interrupt that, on a full queue, drops the stored items and
\* reports the failure
xQueueSendFromISR_dropping(q, val, w) ==
    IF Len(q.items) < q.uxLength
    THEN KRes([q EXCEPT !.items = Append(@, val)], TRUE, w, FALSE, NoVal)
    ELSE KRes([q EXCEPT !.items = <<>>], FALSE, FALSE, FALSE, NoVal)

xQueueSendFromISR(q, val, w) ==
    IF Len(q.items) < q.uxLength
    THEN KRes([q EXCEPT !.items = Append(@, val)], TRUE, w, FALSE, NoVal)
    ELSE KRes(q, FALSE, FALSE, FALSE, NoVal)

\* a receive that takes the item sent last
xQueueReceive_lifo(q, dst, ticks) ==
    IF Len(q.items) > 0
    THEN KRes([q EXCEPT !.items = SubSeq(@, 1, Len(@) - 1)], TRUE, FALSE, FALSE,
              q.items[Len(q.items)])
    ELSE KRes(q, FALSE, FALSE, ticks # 0, dst)

xQueueReceive(q, dst, ticks) ==
    IF Len(q.items) > 0
    THEN KRes([q EXCEPT !.items = Tail(@)], TRUE, FALSE, FALSE, Head(q.items))
    ELSE KRes(q, FALSE, FALSE, ticks # 0, dst)

xQueueReceiveFromISR(q, dst, w) ==
    IF Len(q.items) > 0
    THEN KRes([q EXCEPT !.items = Tail(@)], TRUE, w, FALSE, Head(q.items))
    ELSE KRes(q, FALSE, FALSE, FALSE, dst)

\* a peek that takes the item out of the queue
xQueuePeek_removing(q, dst, ticks) ==
    IF Len(q.items) > 0
    THEN KRes([q EXCEPT !.items = Tail(@)], TRUE, FALSE, FALSE, Head(q.items))
    ELSE KRes(q, FALSE, FALSE, ticks # 0, dst)

xQueuePeek(q, dst, ticks) ==
    IF Len(q.items) > 0
    THEN KRes(q, TRUE, FALSE, FALSE, Head(q.items))
    ELSE KRes(q, FALSE, FALSE, ticks # 0, dst)

xQueuePeekFromISR(q, dst) ==
    IF Len(q.items) > 0
    THEN KRes(q, TRUE, FALSE, FALSE, Head(q.items))
    ELSE KRes(q, FALSE, FALSE, FALSE, dst)

\* a reset that reports success and leaves the items
xQueueReset_keep(q) == KRes(q, TRUE, FALSE, FALSE, NoVal)

xQueueReset(q) == KRes([q EXCEPT !.items = <<>>], TRUE, FALSE, FALSE, NoVal)

-----------------------------------------------------------------------------
(* OSQueue<QueueSize, T>: rtos_helper_queue.hpp *)

OSQueue_new == [m_xQueueSize |-> QueueSize, m_xQueueHandler |-> NULL,
                m_initialized |-> FALSE]

\* body of _send
OSQueue_sendBody(c, val, xMsToWait, w) ==
    LET t == pdMS_TO_TICKS(xMsToWait)
        a == Outcome(<<KCall("xQueueSend", t)>>, FALSE, 0, xQueueSend(kQueue, val, t))
        r == xQueueSendFromISR(kQueue, val, w)
        b == Outcome(<<KCall("xQueueSendFromISR", NoTicks)>>, r.woken,
                     yieldFunc(r.woken), r)
        lb == Outcome(<<KCall("xQueueSendFromISR", NoTicks)>>, r.woken,
                      legacyYield(r.woken), r)
    IN dispatch(c, a, b, a, lb)

\* body of _receive
OSQueue_receiveBody(c, dst, xMsToWait, w) ==
    LET t == pdMS_TO_TICKS(xMsToWait)
        a == Outcome(<<KCall("xQueueReceive", t)>>, FALSE, 0,
                     xQueueReceive(kQueue, dst, t))
        r == xQueueReceiveFromISR(kQueue, dst, w)
        b == Outcome(<<KCall("xQueueReceiveFromISR", NoTicks)>>, r.woken,
                     yieldFunc(r.woken), r)
        lb == Outcome(<<KCall("xQueueReceiveFromISR", NoTicks)>>, r.woken,
                      legacyYield(r.woken), r)
    IN dispatch(c, a, b, a, lb)

\* body of _peek: the ISR branch gets no pxHigherPriorityTaskWoken and never yields
OSQueue_peekBody(c, dst, xMsToWait) ==
    LET t == pdMS_TO_TICKS(xMsToWait)
        a == Outcome(<<KCall("xQueuePeek", t)>>, FALSE, 0, xQueuePeek(kQueue, dst, t))
        b == Outcome(<<KCall("xQueuePeekFromISR", NoTicks)>>, FALSE, 0,
                     xQueuePeekFromISR(kQueue, dst))
    IN dispatch(c, a, b, a, b)

OSQueue_frame == UNCHANGED <<cfg, wrapper, live, queue, counter, mutex, timer, task,
                             kSem, kMutex, kTimer, kTask, kstat>>

OSQueue_send(c, val, xMsToWait, w) ==
    /\ CanCall(c, "OSQueue")
    /\ LET o == OSQueue_sendBody(c, val, xMsToWait, w)
       IN Invoke("send", c, queue.m_xQueueHandler, queue.m_initialized, val,
                 FALSE, NoVal, o, kQueue' = o.k, kQueue' = kQueue)
    /\ OSQueue_frame

OSQueue_receive(c, dst, xMsToWait, w) ==
    /\ CanCall(c, "OSQueue")
    /\ LET o == OSQueue_receiveBody(c, dst, xMsToWait, w)
       IN Invoke("receive", c, queue.m_xQueueHandler, queue.m_initialized, dst,
                 FALSE, dst, o, kQueue' = o.k, kQueue' = kQueue)
    /\ OSQueue_frame

OSQueue_peek(c, dst, xMsToWait) ==
    /\ CanCall(c, "OSQueue")
    /\ LET o == OSQueue_peekBody(c, dst, xMsToWait)
       IN Invoke("peek", c, queue.m_xQueueHandler, queue.m_initialized, dst,
                 FALSE, dst, o, kQueue' = o.k, kQueue' = kQueue)
    /\ OSQueue_frame

\* if (!m_initialized) return true;
\* (uxQueueSpacesAvailable(m_xQueueHandler) == m_xQueueSize) ? true : false
OSQueue_isEmpty(c) ==
    /\ CanCall(c, "OSQueue")
    /\ LET r == KRes(kQueue, uxQueueSpacesAvailable(kQueue) = queue.m_xQueueSize,
                     FALSE, FALSE, NoVal)
           o == Outcome(<<KCall("uxQueueSpacesAvailable", NoTicks)>>, FALSE, 0, r)
       IN Invoke("isEmpty", c, queue.m_xQueueHandler, queue.m_initialized, NoVal,
                 TRUE, NoVal, o, kQueue' = kQueue, kQueue' = kQueue)
    /\ OSQueue_frame

\* if (!m_initialized) return -1; (int32_t) uxQueueSpacesAvailable(m_xQueueHandler)
OSQueue_getFreeSpace(c) ==
    /\ CanCall(c, "OSQueue")
    /\ LET r == KRes(kQueue, TRUE, FALSE, FALSE, uxQueueSpacesAvailable(kQueue))
           o == Outcome(<<KCall("uxQueueSpacesAvailable", NoTicks)>>, FALSE, 0, r)
       IN Invoke("getFreeSpace", c, queue.m_xQueueHandler, queue.m_initialized, NoVal,
                 FALSE, -1, o, kQueue' = kQueue, kQueue' = kQueue)
    /\ OSQueue_frame

\* (bool) xQueueReset(m_xQueueHandler)
OSQueue_fflush(c) ==
    /\ CanCall(c, "OSQueue")
    /\ LET o == Outcome(<<KCall("xQueueReset", NoTicks)>>, FALSE, 0, xQueueReset(kQueue))
       IN Invoke("fflush", c, queue.m_xQueueHandler, queue.m_initialized, NoVal,
                 FALSE, NoVal, o, kQueue' = o.k, kQueue' = kQueue)
    /\ OSQueue_frame

\* setSize: assert(handle == nullptr); assert(m_initialized == false);
\* assert(newSize != 0); if (m_initialized) return false; m_xQueueSize = newSize;
OSQueue_setSize(c, newSize) ==
    /\ CanCall(c, "OSQueue") /\ c \in Tasks
    /\ LET pre == queue.m_xQueueHandler # NULL /\ queue.m_initialized IN
       IF cfg.assert /\ (queue.m_xQueueHandler # NULL \/ queue.m_initialized
                         \/ newSize = 0)
       THEN Trip("setSize", c, pre, <<>>, newSize) /\ queue' = queue
       ELSE IF queue.m_initialized
       THEN Return("setSize", c, pre, FALSE, NoVal, newSize) /\ queue' = queue
       ELSE /\ Return("setSize", c, pre, TRUE, NoVal, newSize)
            /\ queue' = [queue EXCEPT !.m_xQueueSize = newSize]
    /\ UNCHANGED <<cfg, wrapper, live, counter, mutex, timer, task, kernelVars, kstat>>

\* init: assert(m_xQueueSize != 0); m_xQueueHandler = xQueueCreate[Static](...);
\* assert(m_xQueueHandler); if (m_xQueueHandler != nullptr) m_initialized = true;
\* return m_initialized;
\* ok: the kernel could make the queue.
OSQueue_init(c, ok) ==
    /\ CanCall(c, "OSQueue") /\ c \in Tasks /\ AllIdle
    /\ kstat.created < MaxCreated
    /\ ok \in (IF queue.m_xQueueSize = 0 THEN BOOLEAN ELSE AllocOutcomes)
    /\ LET pre == queue.m_xQueueHandler # NULL /\ queue.m_initialized
           fn == IF cfg.static THEN "xQueueCreateStatic" ELSE "xQueueCreate"
           h == IF ok THEN NewHandle ELSE NULL
           inited == queue.m_initialized \/ h # NULL
       IN
       IF cfg.assert /\ queue.m_xQueueSize = 0
       THEN /\ Trip("init", c, pre, <<>>, NoVal)
            /\ UNCHANGED <<queue, kQueue>>
            /\ kstat' = kstat
       ELSE /\ queue' = [queue EXCEPT !.m_xQueueHandler = h, !.m_initialized = inited]
            /\ kQueue' = IF ok THEN xQueueCreate(queue.m_xQueueSize) ELSE kQueue
            /\ kstat' = [kstat EXCEPT !.created = IF ok THEN @ + 1 ELSE @]
            /\ IF cfg.assert /\ h = NULL
               THEN Trip("init", c, pre, <<KCall(fn, NoTicks)>>, NoVal)
               ELSE /\ call' = CallRec("init", c, "returned", pre,
                                       <<KCall(fn, NoTicks)>>, FALSE, 0, inited,
                                       Created(ok), NoVal)
                    /\ UNCHANGED <<aborted, pend>>
    /\ UNCHANGED <<cfg, wrapper, live, counter, mutex, timer, task,
                   kSem, kMutex, kTimer, kTask>>

\* ~OSQueue: assert(m_xQueueHandler); vQueueDelete(m_xQueueHandler);
\* m_xQueueHandler = nullptr; m_initialized = false;
OSQueue_dtor(c) ==
    /\ CanCall(c, "OSQueue") /\ c \in Tasks /\ AllIdle
    /\ LET pre == queue.m_xQueueHandler # NULL /\ queue.m_initialized IN
       IF cfg.assert /\ queue.m_xQueueHandler = NULL
       THEN Trip("dtor", c, pre, <<>>, NoVal) /\ UNCHANGED <<queue, kQueue, kstat, live>>
       ELSE IF queue.m_xQueueHandler = NULL
       THEN /\ Undefined("dtor", c, pre, <<KCall("vQueueDelete", NoTicks)>>, NoVal)
            /\ UNCHANGED <<queue, kQueue, kstat, live>>
       ELSE /\ call' = CallRec("dtor", c, "returned", pre,
                               <<KCall("vQueueDelete", NoTicks)>>, FALSE, 0, FALSE,
                               NoVal, NoVal)
            /\ queue' = [queue EXCEPT !.m_xQueueHandler = NULL, !.m_initialized = FALSE]
            /\ kQueue' = NoQueue
            /\ kstat' = [kstat EXCEPT !.deleted = @ + 1]
            /\ live' = FALSE
            /\ UNCHANGED <<aborted, pend>>
    /\ UNCHANGED <<cfg, wrapper, counter, mutex, timer, task, kSem, kMutex, kTimer, kTask>>

\* the kernel wakes a task blocked on the queue
OSQueue_unblock(c) ==
    /\ wrapper = "OSQueue" /\ ~aborted /\ pend[c].st = "blocked"
    /\ LET r == CASE pend[c].fn = "xQueueSend" -> xQueueSend(kQueue, pend[c].arg, 0)
                  [] pend[c].fn = "xQueueReceive" -> xQueueReceive(kQueue, pend[c].arg, 0)
                  [] OTHER -> xQueuePeek(kQueue, pend[c].arg, 0)
       IN /\ r.res
          /\ kQueue' = r.k
          /\ Resume(c, TRUE, r.out)
    /\ OSQueue_frame

\* the blocked kernel call of c finds what it waits for
KernelReady(c) ==
    CASE pend[c].fn = "xQueueSend" -> Len(kQueue.items) < kQueue.uxLength
      [] pend[c].fn \in {"xQueueReceive", "xQueuePeek"} -> Len(kQueue.items) > 0
      [] pend[c].fn = "xSemaphoreTake" ->
            IF wrapper = "OSMutex" THEN kMutex.holder = "none" ELSE kSem.count > 0
      [] OTHER -> Len(kTimer.cmds) < TimerQueueLength

\* the wait of a blocked kernel call elapses: the kernel looks at the object once
\* more and fails the call only if it still has to wait.  The drain loop of
\* Counter::reset ends with the take that fails and returns true.
KernelTimeout(c) ==
    /\ ~aborted /\ pend[c].st = "blocked"
    /\ pend[c].ticks # portMAX_DELAY
    /\ pend[c].fn \notin {"ulTaskNotifyTake", "xTaskDelayUntil"}
    /\ ~KernelReady(c)
    /\ Resume(c, pend[c].op = "reset",
              IF pend[c].op \in {"receive", "peek"} THEN pend[c].arg ELSE NoVal)
    /\ UNCHANGED <<cfg, wrapper, live, wrapperVars, kernelVars, kstat>>

-----------------------------------------------------------------------------
(* Kernel counting semaphore and mutex, as the wrappers call them *)

NoSem == [exists |-> FALSE, uxMax |-> 0, count |-> 0]

xSemaphoreCreateCounting(uxMaxCount, uxInitialCount) ==
    [exists |-> TRUE, uxMax |-> uxMaxCount, count |-> uxInitialCount]

\* a take that fails while one count is left
xSemaphoreTake_leavesOne(k, ticks) ==
    IF k.count > 1
    THEN KRes([k EXCEPT !.count = @ - 1], TRUE, FALSE, FALSE, NoVal)
    ELSE KRes(k, FALSE, FALSE, FALSE, NoVal)

xSemaphoreTake(k, ticks) ==
    IF k.count > 0
    THEN KRes([k EXCEPT !.count = @ - 1], TRUE, FALSE, FALSE, NoVal)
    ELSE KRes(k, FALSE, FALSE, ticks # 0, NoVal)

xSemaphoreTakeFromISR(k, w) ==
    IF k.count > 0
    THEN KRes([k EXCEPT !.count = @ - 1], TRUE, w, FALSE, NoVal)
    ELSE KRes(k, FALSE, FALSE, FALSE, NoVal)

\* a give that does not look at the maximum count
xSemaphoreGive_uncapped(k) ==
    KRes([k EXCEPT !.count = @ + 1], TRUE, FALSE, FALSE, NoVal)

xSemaphoreGive(k) ==
    IF k.count < k.uxMax
    THEN KRes([k EXCEPT !.count = @ + 1], TRUE, FALSE, FALSE, NoVal)
    ELSE KRes(k, FALSE, FALSE, FALSE, NoVal)

xSemaphoreGiveFromISR(k, w) ==
    IF k.count < k.uxMax
    THEN KRes([k EXCEPT !.count = @ + 1], TRUE, w, FALSE, NoVal)
    ELSE KRes(k, FALSE, FALSE, FALSE, NoVal)

NoMutex == [exists |-> FALSE, holder |-> "none"]

xSemaphoreCreateMutex == [exists |-> TRUE, holder |-> "none"]

\* a take that succeeds whoever holds the mutex
xMutexTake_always(k, c, ticks) ==
    KRes([k EXCEPT !.holder = c], TRUE, FALSE, FALSE, NoVal)

\* a take that succeeds again for the task that holds the mutex
xMutexTake_recursive(k, c, ticks) ==
    IF k.holder \in {"none", c}
    THEN KRes([k EXCEPT !.holder = c], TRUE, FALSE, FALSE, NoVal)
    ELSE KRes(k, FALSE, FALSE, ticks # 0, NoVal)

\* xSemaphoreTake on a mutex by task c
xMutexTake(k, c, ticks) ==
    IF k.holder = "none"
    THEN KRes([k EXCEPT !.holder = c], TRUE, FALSE, FALSE, NoVal)
    ELSE KRes(k, FALSE, FALSE, ticks # 0, NoVal)

\* xSemaphoreGive on a mutex: fails when the mutex is not taken
xMutexGive(k) ==
    IF k.holder # "none"
    THEN KRes([k EXCEPT !.holder = "none"], TRUE, FALSE, FALSE, NoVal)
    ELSE KRes(k, FALSE, FALSE, FALSE, NoVal)

-----------------------------------------------------------------------------
(* Counter<MaxCount>: rtos_helper_counter.hpp *)

Counter_new == [m_MaxCount |-> MaxCount, m_xCounter |-> NULL, m_initialized |-> FALSE]

\* body of take: the pre-C++17 branch hands xMsToWait to the kernel as ticks
Counter_takeBody(c, xMsToWait, w) ==
    LET t == pdMS_TO_TICKS(xMsToWait)
        a == Outcome(<<KCall("xSemaphoreTake", t)>>, FALSE, 0, xSemaphoreTake(kSem, t))
        la == Outcome(<<KCall("xSemaphoreTake", xMsToWait)>>, FALSE, 0,
                      xSemaphoreTake(kSem, xMsToWait))
        r == xSemaphoreTakeFromISR(kSem, w)
        b == Outcome(<<KCall("xSemaphoreTakeFromISR", NoTicks)>>, r.woken,
                     yieldFunc(r.woken), r)
        lb == Outcome(<<KCall("xSemaphoreTakeFromISR", NoTicks)>>, r.woken,
                      legacyYield(r.woken), r)
    IN dispatch(c, a, b, la, lb)

\* body of give
Counter_giveBody(c, w) ==
    LET a == Outcome(<<KCall("xSemaphoreGive", NoTicks)>>, FALSE, 0, xSemaphoreGive(kSem))
        r == xSemaphoreGiveFromISR(kSem, w)
        b == Outcome(<<KCall("xSemaphoreGiveFromISR", NoTicks)>>, r.woken,
                     yieldFunc(r.woken), r)
        lb == Outcome(<<KCall("xSemaphoreGiveFromISR", NoTicks)>>, r.woken,
                      legacyYield(r.woken), r)
    IN dispatch(c, a, b, a, lb)

\* a reset that takes one count instead of looping
Counter_resetBody_once(c, w) ==
    Outcome(<<KCall("xSemaphoreTakeFromISR", NoTicks)>>, FALSE, 0,
            KRes(xSemaphoreTakeFromISR(kSem, w).k, TRUE, FALSE, FALSE, NoVal))

\* body of reset: while (xSemaphoreTake[FromISR](...)) ; return pdTRUE
\* one take per available count and the take that fails; in an ISR the takes
\* share one status and the yield follows the loop.  The pre-C++17 task branch
\* waits one tick in every take, so its last take blocks.
Counter_resetBody(c, w) ==
    LET n == kSem.count + 1
        drained == [kSem EXCEPT !.count = 0]
        woken == w /\ kSem.count > 0
        a == Outcome([i \in 1 .. n |-> KCall("xSemaphoreTake", 0)], FALSE, 0,
                     KRes(drained, TRUE, FALSE, FALSE, NoVal))
        la == Outcome([i \in 1 .. n |-> KCall("xSemaphoreTake", 1)], FALSE, 0,
                      KRes(drained, TRUE, FALSE, TRUE, NoVal))
        b == Outcome([i \in 1 .. n |-> KCall("xSemaphoreTakeFromISR", NoTicks)],
                     woken, yieldFunc(woken), KRes(drained, TRUE, woken, FALSE, NoVal))
        lb == Outcome([i \in 1 .. n |-> KCall("xSemaphoreTakeFromISR", NoTicks)],
                      woken, legacyYield(woken), KRes(drained, TRUE, woken, FALSE, NoVal))
    IN dispatch(c, a, b, la, lb)

Counter_frame == UNCHANGED <<cfg, wrapper, live, queue, counter, mutex, timer, task,
                             kQueue, kMutex, kTimer, kTask, kstat>>

Counter_take(c, xMsToWait, w) ==
    /\ CanCall(c, "Counter")
    /\ LET o == Counter_takeBody(c, xMsToWait, w)
       IN Invoke("take", c, counter.m_xCounter, counter.m_initialized, NoVal,
                 FALSE, NoVal, o, kSem' = o.k, kSem' = kSem)
    /\ Counter_frame

Counter_give(c, w) ==
    /\ CanCall(c, "Counter")
    /\ LET o == Counter_giveBody(c, w)
       IN Invoke("give", c, counter.m_xCounter, counter.m_initialized, NoVal,
                 FALSE, NoVal, o, kSem' = o.k, kSem' = kSem)
    /\ Counter_frame

\* a reset that blocks in its last take (pre-C++17) has drained the counts before
Counter_reset(c, w) ==
    /\ CanCall(c, "Counter")
    /\ LET o == Counter_resetBody(c, w)
       IN Invoke("reset", c, counter.m_xCounter, counter.m_initialized, NoVal,
                 FALSE, NoVal, o, kSem' = o.k,
                 kSem' = IF counter.m_initialized /\ counter.m_xCounter # NULL
                            /\ ~xPortInIsrContext(c) /\ o.block
                         THEN o.k ELSE kSem)
    /\ Counter_frame

\* init: assert(m_MaxCount != 0); m_xCounter = xSemaphoreCreateCounting[Static](...);
\* assert(m_xCounter); if (m_xCounter != nullptr) m_initialized = true;
\* return m_initialized;
Counter_init(c, ok) ==
    /\ CanCall(c, "Counter") /\ c \in Tasks /\ AllIdle
    /\ kstat.created < MaxCreated
    /\ ok \in AllocOutcomes
    /\ LET pre == counter.m_xCounter # NULL /\ counter.m_initialized
           fn == IF cfg.static THEN "xSemaphoreCreateCountingStatic"
                 ELSE "xSemaphoreCreateCounting"
           h == IF ok THEN NewHandle ELSE NULL
           inited == counter.m_initialized \/ h # NULL
       IN
       /\ counter' = [counter EXCEPT !.m_xCounter = h, !.m_initialized = inited]
       /\ kSem' = IF ok THEN xSemaphoreCreateCounting(counter.m_MaxCount, 0) ELSE kSem
       /\ kstat' = [kstat EXCEPT !.created = IF ok THEN @ + 1 ELSE @]
       /\ IF cfg.assert /\ h = NULL
          THEN Trip("init", c, pre, <<KCall(fn, NoTicks)>>, NoVal)
          ELSE /\ call' = CallRec("init", c, "returned", pre, <<KCall(fn, NoTicks)>>,
                                  FALSE, 0, inited, Created(ok), NoVal)
               /\ UNCHANGED <<aborted, pend>>
    /\ UNCHANGED <<cfg, wrapper, live, queue, mutex, timer, task,
                   kQueue, kMutex, kTimer, kTask>>

\* ~Counter: assert(m_xCounter); vSemaphoreDelete(m_xCounter); m_xCounter = nullptr;
Counter_dtor(c) ==
    /\ CanCall(c, "Counter") /\ c \in Tasks /\ AllIdle
    /\ LET pre == counter.m_xCounter # NULL /\ counter.m_initialized IN
       IF cfg.assert /\ counter.m_xCounter = NULL
       THEN Trip("dtor", c, pre, <<>>, NoVal) /\ UNCHANGED <<counter, kSem, kstat, live>>
       ELSE IF counter.m_xCounter = NULL
       THEN /\ Undefined("dtor", c, pre, <<KCall("vSemaphoreDelete", NoTicks)>>, NoVal)
            /\ UNCHANGED <<counter, kSem, kstat, live>>
       ELSE /\ call' = CallRec("dtor", c, "returned", pre,
                               <<KCall("vSemaphoreDelete", NoTicks)>>, FALSE, 0, FALSE,
                               NoVal, NoVal)
            /\ counter' = [counter EXCEPT !.m_xCounter = NULL]
            /\ kSem' = NoSem
            /\ kstat' = [kstat EXCEPT !.deleted = @ + 1]
            /\ live' = FALSE
            /\ UNCHANGED <<aborted, pend>>
    /\ UNCHANGED <<cfg, wrapper, queue, mutex, timer, task, kQueue, kMutex, kTimer, kTask>>

\* the kernel wakes a task blocked in a take: a count has become available.
\* A reset blocked in its loop takes it and blocks in the next take.
Counter_unblock(c) ==
    /\ wrapper = "Counter" /\ ~aborted /\ pend[c].st = "blocked"
    /\ kSem.count > 0
    /\ IF pend[c].op = "reset"
       THEN /\ kSem' = [kSem EXCEPT !.count = 0]
            /\ call' = CallRec("reset", c, "blocked", pend[c].pre,
                               [i \in 1 .. kSem.count + 1 |-> KCall("xSemaphoreTake", 1)],
                               FALSE, 0, FALSE, NoVal, NoVal)
            /\ UNCHANGED <<pend, aborted>>
       ELSE /\ kSem' = [kSem EXCEPT !.count = @ - 1]
            /\ Resume(c, TRUE, NoVal)
    /\ Counter_frame

------------------------------------------------------------------------\* reset() one kernel call at a time, so that the calls of other tasks and of
\* interrupts fall between the takes of its loop.  pend[c].st = "taking": c is about
\* to make the next take of the loop; "blocked": the take of the pre-C++17 task
\* branch waits its tick; "leaving": the take has failed and c is about to return.
\* pend[c].arg counts the takes that succeeded, up to MaxCount + 1.
Counter_resetEnter(c) ==
    /\ CanCall(c, "Counter")
    /\ LET pre == counter.m_xCounter # NULL /\ counter.m_initialized IN
       IF cfg.assert /\ ~pre
       THEN Trip("reset", c, pre, <<>>, NoVal)
       ELSE IF ~counter.m_initialized
       THEN Return("reset", c, pre, FALSE, NoVal, NoVal)
       ELSE IF counter.m_xCounter = NULL
       THEN Undefined("reset", c, pre, <<>>, NoVal)
       ELSE /\ pend' = [pend EXCEPT ![c] =
                          [st |-> "taking", op |-> "reset",
                           fn |-> IF xPortInIsrContext(c) THEN "xSemaphoreTakeFromISR"
                                  ELSE "xSemaphoreTake",
                           ticks |-> IF xPortInIsrContext(c) THEN NoTicks
                                     ELSE IF cfg.cpp17 THEN 0 ELSE 1,
                           arg |-> 0, pre |-> pre]]
            /\ UNCHANGED <<call, aborted>>
    /\ kSem' = kSem
    /\ Counter_frame

\* while (xSemaphoreTake[FromISR](m_xCounter, ...)) ;   one evaluation of the
\* condition; a take that waited finds a count or its tick elapses
Counter_resetTake(c) ==
    /\ wrapper = "Counter" /\ ~aborted /\ pend[c].st \in {"taking", "blocked"}
    /\ pend[c].op = "reset"
    /\ LET r == IF xPortInIsrContext(c) THEN xSemaphoreTakeFromISR(kSem, FALSE)
                ELSE xSemaphoreTake(kSem, IF pend[c].st = "blocked" THEN 0
                                          ELSE pend[c].ticks)
       IN /\ kSem' = r.k
          /\ pend' = [pend EXCEPT
                        ![c].st = IF r.res THEN "taking"
                                  ELSE IF r.block THEN "blocked" ELSE "leaving",
                        ![c].arg = IF r.res /\ @ <= MaxCount THEN @ + 1 ELSE @]
    /\ UNCHANGED <<call, aborted>>
    /\ Counter_frame

\* yieldFunc(status) in an interrupt; return pdTRUE
Counter_resetReturn(c, w) ==
    /\ wrapper = "Counter" /\ ~aborted /\ pend[c].st = "leaving"
    /\ LET woken == xPortInIsrContext(c) /\ w /\ pend[c].arg > 0
           yields == IF cfg.cpp17 THEN yieldFunc(woken) ELSE legacyYield(woken)
       IN call' = CallRec("reset", c, "returned", pend[c].pre,
                          [i \in 1 .. pend[c].arg + 1 |-> KCall(pend[c].fn, pend[c].ticks)],
                          woken, yields, TRUE, NoVal, pend[c].arg)
    /\ pend' = [pend EXCEPT ![c] = Idle]
    /\ UNCHANGED <<kSem, aborted>>
    /\ Counter_frame

-----
(* OSMutex: rtos_helper_mutex.hpp *)

OSMutex_new == [m_MutexHandler |-> NULL, m_initialized |-> FALSE]

\* the value init() returns
OSMutex_initResult(h) == h = NULL

\* an init that allocates dynamically whatever the build
OSMutex_init_dynamic(c, ok) ==
    /\ CanCall(c, "OSMutex") /\ c \in Tasks /\ AllIdle
    /\ kstat.created < MaxCreated
    /\ ok \in AllocOutcomes
    /\ LET pre == mutex.m_MutexHandler # NULL /\ mutex.m_initialized
           fn == "xSemaphoreCreateMutex"
           h == IF ok THEN NewHandle ELSE NULL
       IN
       /\ mutex' = [mutex EXCEPT !.m_MutexHandler = h,
                                 !.m_initialized = mutex.m_initialized \/ h # NULL]
       /\ kMutex' = IF ok THEN xSemaphoreCreateMutex ELSE kMutex
       /\ kstat' = [kstat EXCEPT !.created = IF ok THEN @ + 1 ELSE @]
       /\ IF cfg.assert /\ h = NULL
          THEN Trip("init", c, pre, <<KCall(fn, NoTicks)>>, NoVal)
          ELSE /\ call' = CallRec("init", c, "returned", pre, <<KCall(fn, NoTicks)>>,
                                  FALSE, 0, OSMutex_initResult(h), Created(ok), NoVal)
               /\ UNCHANGED <<aborted, pend>>
    /\ UNCHANGED <<cfg, wrapper, live, queue, counter, timer, task,
                   kQueue, kSem, kTimer, kTask>>

\* init: m_MutexHandler = xSemaphoreCreateMutex[Static](...); assert(m_MutexHandler);
\* if (m_MutexHandler != nullptr) m_initialized = true;
\* return (m_MutexHandler == nullptr);
OSMutex_init(c, ok) ==
    /\ CanCall(c, "OSMutex") /\ c \in Tasks /\ AllIdle
    /\ kstat.created < MaxCreated
    /\ ok \in AllocOutcomes
    /\ LET pre == mutex.m_MutexHandler # NULL /\ mutex.m_initialized
           fn == IF cfg.static THEN "xSemaphoreCreateMutexStatic"
                 ELSE "xSemaphoreCreateMutex"
           h == IF ok THEN NewHandle ELSE NULL
       IN
       /\ mutex' = [mutex EXCEPT !.m_MutexHandler = h,
                                 !.m_initialized = mutex.m_initialized \/ h # NULL]
       /\ kMutex' = IF ok THEN xSemaphoreCreateMutex ELSE kMutex
       /\ kstat' = [kstat EXCEPT !.created = IF ok THEN @ + 1 ELSE @]
       /\ IF cfg.assert /\ h = NULL
          THEN Trip("init", c, pre, <<KCall(fn, NoTicks)>>, NoVal)
          ELSE /\ call' = CallRec("init", c, "returned", pre, <<KCall(fn, NoTicks)>>,
                                  FALSE, 0, OSMutex_initResult(h), Created(ok), NoVal)
               /\ UNCHANGED <<aborted, pend>>
    /\ UNCHANGED <<cfg, wrapper, live, queue, counter, timer, task,
                   kQueue, kSem, kTimer, kTask>>

OSMutex_frame == UNCHANGED <<cfg, wrapper, live, queue, counter, mutex, timer, task,
                             kQueue, kSem, kTimer, kTask, kstat>>

\* lock: the asserts, if (!m_initialized) return false;
\* (bool) xSemaphoreTake(m_MutexHandler, pdMS_TO_TICKS(xMsToWait)), in any context
OSMutex_lockBody(c, xMsToWait) ==
    LET t == pdMS_TO_TICKS(xMsToWait)
    IN Outcome(<<KCall("xSemaphoreTake", t)>>, FALSE, 0, xMutexTake(kMutex, c, t))

\* unlock: the asserts, if (!m_initialized) return false;
\* (bool) xSemaphoreGive(m_MutexHandler), in any context
OSMutex_unlockBody(c) ==
    Outcome(<<KCall("xSemaphoreGive", NoTicks)>>, FALSE, 0, xMutexGive(kMutex))

OSMutex_lock(c, xMsToWait) ==
    /\ CanCall(c, "OSMutex")
    /\ LET o == OSMutex_lockBody(c, xMsToWait)
       IN Invoke("lock", c, mutex.m_MutexHandler, mutex.m_initialized, NoVal,
                 FALSE, NoVal, o, kMutex' = o.k, kMutex' = kMutex)
    /\ OSMutex_frame

OSMutex_unlock(c) ==
    /\ CanCall(c, "OSMutex")
    /\ LET o == OSMutex_unlockBody(c)
       IN Invoke("unlock", c, mutex.m_MutexHandler, mutex.m_initialized, NoVal,
                 FALSE, NoVal, o, kMutex' = o.k, kMutex' = kMutex)
    /\ OSMutex_frame

\* OSMutex declares no destructor: the object goes, the kernel mutex stays
OSMutex_dtor(c) ==
    /\ CanCall(c, "OSMutex") /\ c \in Tasks /\ AllIdle
    /\ call' = CallRec("dtor", c, "returned",
                       mutex.m_MutexHandler # NULL /\ mutex.m_initialized,
                       <<>>, FALSE, 0, FALSE, NoVal, NoVal)
    /\ live' = FALSE
    /\ UNCHANGED <<cfg, wrapper, wrapperVars, kernelVars, kstat, pend, aborted>>

\* the kernel wakes a task blocked in lock: the mutex has been given
OSMutex_unblock(c) ==
    /\ wrapper = "OSMutex" /\ ~aborted /\ pend[c].st = "blocked"
    /\ kMutex.holder = "none"
    /\ kMutex' = [kMutex EXCEPT !.holder = c]
    /\ Resume(c, TRUE, NoVal)
    /\ OSMutex_frame

-----------------------------------------------------------------------------
(* Kernel software timer and the timer command queue, as the wrapper calls them *)

NoTimer == [exists |-> FALSE, active |-> FALSE, period |-> 0, cmds |-> <<>>]

\* xTimerCreate(name, 1, autoReload, id, callback): dormant, period of one tick
xTimerCreate(k) == [exists |-> TRUE, active |-> FALSE, period |-> 1, cmds |-> k.cmds]

TimerCmd(cmd, val) == [cmd |-> cmd, val |-> val]

\* xTimerGenericCommand: post a command, waiting up to ticks for room in the queue
xTimerGenericCommand(k, cmd, val, ticks) ==
    IF Len(k.cmds) < TimerQueueLength
    THEN KRes([k EXCEPT !.cmds = Append(@, TimerCmd(cmd, val))], TRUE, FALSE, FALSE, NoVal)
    ELSE KRes(k, FALSE, FALSE, ticks # 0, NoVal)

xTimerGenericCommandFromISR(k, cmd, val, w) ==
    IF Len(k.cmds) < TimerQueueLength
    THEN KRes([k EXCEPT !.cmds = Append(@, TimerCmd(cmd, val))], TRUE, w, FALSE, NoVal)
    ELSE KRes(k, FALSE, FALSE, FALSE, NoVal)

\* the timer service task executes one command
prvProcessCommand(k, m) ==
    CASE m.cmd = "changePeriod" -> [k EXCEPT !.period = m.val, !.active = k.exists]
      [] m.cmd \in {"start", "reset"} -> [k EXCEPT !.active = k.exists]
      [] m.cmd = "stop" -> [k EXCEPT !.active = FALSE]
      [] m.cmd = "delete" -> [k EXCEPT !.exists = FALSE, !.active = FALSE]
      [] OTHER -> k

\* the timer service task empties the command queue
RECURSIVE prvProcessReceivedCommands(_)
prvProcessReceivedCommands(k) ==
    IF k.cmds = <<>> THEN k
    ELSE prvProcessReceivedCommands(
             [prvProcessCommand(k, Head(k.cmds)) EXCEPT !.cmds = Tail(k.cmds)])

-----------------------------------------------------------------------------
(* OSTimer: rtos_helper_timer.hpp *)

OSTimer_new == [m_TimerFuncPtr |-> "vAppTimerFunc", m_TimerName |-> "AppTimer",
                m_xTimerHandler |-> NULL, m_initialized |-> FALSE]

PeriodMs == {10}                    \* xPeriodInMs arguments explored

\* body of start: change the period, then start; the result is that of the start.
\* In task context the timer service task may run between the two commands (d).
OSTimer_startBody(c, xPeriodInMs, d, w1, w2) ==
    LET t == pdMS_TO_TICKS(xPeriodInMs)
        r1 == xTimerGenericCommand(kTimer, "changePeriod", t, 0)
        r2 == xTimerGenericCommand(IF d THEN prvProcessReceivedCommands(r1.k) ELSE r1.k,
                                   "start", NoVal, 0)
        a == Outcome(<<KCall("xTimerChangePeriod", 0), KCall("xTimerStart", 0)>>,
                     FALSE, 0, r2)
        i1 == xTimerGenericCommandFromISR(kTimer, "changePeriod", t, w1)
        i2 == xTimerGenericCommandFromISR(i1.k, "start", NoVal, w2)
        status == i1.woken \/ i2.woken
        b == Outcome(<<KCall("xTimerChangePeriodFromISR", NoTicks),
                       KCall("xTimerStartFromISR", NoTicks)>>,
                     status, yieldFunc(status), i2)
        lb == Outcome(<<KCall("xTimerChangePeriodFromISR", NoTicks),
                        KCall("xTimerStartFromISR", NoTicks)>>,
                      status, legacyYield(status), i2)
    IN dispatch(c, a, b, a, lb)

\* body of stop
OSTimer_stopBody(c, w) ==
    LET a == Outcome(<<KCall("xTimerStop", 0)>>, FALSE, 0,
                     xTimerGenericCommand(kTimer, "stop", NoVal, 0))
        r == xTimerGenericCommandFromISR(kTimer, "stop", NoVal, w)
        b == Outcome(<<KCall("xTimerStopFromISR", NoTicks)>>, r.woken,
                     yieldFunc(r.woken), r)
        lb == Outcome(<<KCall("xTimerStopFromISR", NoTicks)>>, r.woken,
                      legacyYield(r.woken), r)
    IN dispatch(c, a, b, a, lb)

\* body of restart: xTimerReset(m_xTimerHandler, pdMS_TO_TICKS(xPeriodInMs)): the
\* period argument is the time to wait for room in the command queue
OSTimer_restartBody(c, xPeriodInMs, w) ==
    LET t == pdMS_TO_TICKS(xPeriodInMs)
        a == Outcome(<<KCall("xTimerReset", t)>>, FALSE, 0,
                     xTimerGenericCommand(kTimer, "reset", NoVal, t))
        r == xTimerGenericCommandFromISR(kTimer, "reset", NoVal, w)
        b == Outcome(<<KCall("xTimerResetFromISR", NoTicks)>>, r.woken,
                     yieldFunc(r.woken), r)
        lb == Outcome(<<KCall("xTimerResetFromISR", NoTicks)>>, r.woken,
                      legacyYield(r.woken), r)
    IN dispatch(c, a, b, a, lb)

\* body of asyncCall
OSTimer_asyncCallBody(c, xMsToWait, w) ==
    LET t == pdMS_TO_TICKS(xMsToWait)
        a == Outcome(<<KCall("xTimerPendFunctionCall", t)>>, FALSE, 0,
                     xTimerGenericCommand(kTimer, "pend", NoVal, t))
        r == xTimerGenericCommandFromISR(kTimer, "pend", NoVal, w)
        b == Outcome(<<KCall("xTimerPendFunctionCallFromISR", NoTicks)>>, r.woken,
                     yieldFunc(r.woken), r)
        lb == Outcome(<<KCall("xTimerPendFunctionCallFromISR", NoTicks)>>, r.woken,
                      legacyYield(r.woken), r)
    IN dispatch(c, a, b, a, lb)

OSTimer_frame == UNCHANGED <<cfg, wrapper, live, queue, counter, mutex, timer, task,
                             kQueue, kSem, kMutex, kTask, kstat>>

OSTimer_start(c, xPeriodInMs, d, w1, w2) ==
    /\ CanCall(c, "OSTimer")
    /\ LET o == OSTimer_startBody(c, xPeriodInMs, d, w1, w2)
       IN Invoke("start", c, timer.m_xTimerHandler, timer.m_initialized, xPeriodInMs,
                 FALSE, NoVal, o, kTimer' = o.k, kTimer' = kTimer)
    /\ OSTimer_frame

OSTimer_stop(c, w) ==
    /\ CanCall(c, "OSTimer")
    /\ LET o == OSTimer_stopBody(c, w)
       IN Invoke("stop", c, timer.m_xTimerHandler, timer.m_initialized, NoVal,
                 FALSE, NoVal, o, kTimer' = o.k, kTimer' = kTimer)
    /\ OSTimer_frame

OSTimer_restart(c, xPeriodInMs, w) ==
    /\ CanCall(c, "OSTimer")
    /\ LET o == OSTimer_restartBody(c, xPeriodInMs, w)
       IN Invoke("restart", c, timer.m_xTimerHandler, timer.m_initialized, xPeriodInMs,
                 FALSE, NoVal, o, kTimer' = o.k, kTimer' = kTimer)
    /\ OSTimer_frame

\* (bool) xTimerIsTimerActive(m_xTimerHandler)
OSTimer_isActive(c) ==
    /\ CanCall(c, "OSTimer")
    /\ LET o == Outcome(<<KCall("xTimerIsTimerActive", NoTicks)>>, FALSE, 0,
                        KRes(kTimer, kTimer.active, FALSE, FALSE, NoVal))
       IN Invoke("isActive", c, timer.m_xTimerHandler, timer.m_initialized, NoVal,
                 FALSE, NoVal, o, kTimer' = kTimer, kTimer' = kTimer)
    /\ OSTimer_frame

\* static asyncCall: assert(xFunctionToPend); if (xFunctionToPend == nullptr)
\* return false; it needs no timer object.  fnOk: the function pointer is not null.
OSTimer_asyncCall(c, fnOk, xMsToWait, w) ==
    /\ CanCall(c, "OSTimer")
    /\ LET o == OSTimer_asyncCallBody(c, xMsToWait, w)
       IN Invoke("asyncCall", c, IF fnOk THEN 1 ELSE NULL, fnOk, NoVal,
                 FALSE, NoVal, o, kTimer' = o.k, kTimer' = kTimer)
    /\ OSTimer_frame

\* setName: assert(m_initialized == false); assert(newName != nullptr);
\* if (m_initialized) return false; m_TimerName = newName; return true;
OSTimer_setName(c, newName) ==
    /\ CanCall(c, "OSTimer") /\ c \in Tasks
    /\ LET pre == timer.m_xTimerHandler # NULL /\ timer.m_initialized IN
       IF cfg.assert /\ (timer.m_initialized \/ newName = "nullptr")
       THEN Trip("setName", c, pre, <<>>, NoVal) /\ timer' = timer
       ELSE IF timer.m_initialized
       THEN Return("setName", c, pre, FALSE, NoVal, NoVal) /\ timer' = timer
       ELSE /\ Return("setName", c, pre, TRUE, NoVal, NoVal)
            /\ timer' = [timer EXCEPT !.m_TimerName = newName]
    /\ UNCHANGED <<cfg, wrapper, live, queue, counter, mutex, task, kernelVars, kstat>>

\* init: assert(m_TimerName != nullptr); assert(m_TimerFuncPtr != nullptr);
\* m_xTimerHandler = xTimerCreate[Static](...); assert(m_xTimerHandler);
\* if (m_xTimerHandler != nullptr) m_initialized = true; return m_initialized;
OSTimer_init(c, ok) ==
    /\ CanCall(c, "OSTimer") /\ c \in Tasks /\ AllIdle
    /\ kstat.created < MaxCreated
    /\ ok \in AllocOutcomes
    /\ LET pre == timer.m_xTimerHandler # NULL /\ timer.m_initialized
           fn == IF cfg.static THEN "xTimerCreateStatic" ELSE "xTimerCreate"
           h == IF ok THEN NewHandle ELSE NULL
           inited == timer.m_initialized \/ h # NULL
       IN
       IF cfg.assert /\ (timer.m_TimerName = "nullptr" \/ timer.m_TimerFuncPtr = "nullptr")
       THEN /\ Trip("init", c, pre, <<>>, NoVal)
            /\ UNCHANGED <<timer, kTimer>>
            /\ kstat' = kstat
       ELSE /\ timer' = [timer EXCEPT !.m_xTimerHandler = h, !.m_initialized = inited]
            /\ kTimer' = IF ok THEN xTimerCreate(kTimer) ELSE kTimer
            /\ kstat' = [kstat EXCEPT !.created = IF ok THEN @ + 1 ELSE @]
            /\ IF cfg.assert /\ h = NULL
               THEN Trip("init", c, pre, <<KCall(fn, NoTicks)>>, NoVal)
               ELSE /\ call' = CallRec("init", c, "returned", pre,
                                       <<KCall(fn, NoTicks)>>, FALSE, 0, inited,
                                       Created(ok), NoVal)
                    /\ UNCHANGED <<aborted, pend>>
    /\ UNCHANGED <<cfg, wrapper, live, queue, counter, mutex, task,
                   kQueue, kSem, kMutex, kTask>>

\* ~OSTimer: assert(m_xTimerHandler); xTimerDelete(m_xTimerHandler, 0u);
\* m_xTimerHandler = nullptr;  The delete is a command: it is lost when the command
\* queue has no room.
OSTimer_dtor(c) ==
    /\ CanCall(c, "OSTimer") /\ c \in Tasks /\ AllIdle
    /\ LET pre == timer.m_xTimerHandler # NULL /\ timer.m_initialized
           r == xTimerGenericCommand(kTimer, "delete", NoVal, 0)
       IN
       IF cfg.assert /\ timer.m_xTimerHandler = NULL
       THEN Trip("dtor", c, pre, <<>>, NoVal) /\ UNCHANGED <<timer, kTimer, kstat, live>>
       ELSE IF timer.m_xTimerHandler = NULL
       THEN /\ Undefined("dtor", c, pre, <<KCall("xTimerDelete", 0)>>, NoVal)
            /\ UNCHANGED <<timer, kTimer, kstat, live>>
       ELSE /\ call' = CallRec("dtor", c, "returned", pre, <<KCall("xTimerDelete", 0)>>,
                               FALSE, 0, FALSE, NoVal, NoVal)
            /\ timer' = [timer EXCEPT !.m_xTimerHandler = NULL]
            /\ kTimer' = r.k
            /\ kstat' = [kstat EXCEPT !.deleted = IF r.res THEN @ + 1 ELSE @]
            /\ live' = FALSE
            /\ UNCHANGED <<aborted, pend>>
    /\ UNCHANGED <<cfg, wrapper, queue, counter, mutex, task, kQueue, kSem, kMutex, kTask>>

\* the timer service task takes the next command
TimerService ==
    /\ wrapper = "OSTimer" /\ ~aborted
    /\ kTimer.cmds # <<>>
    /\ kTimer' = [prvProcessCommand(kTimer, Head(kTimer.cmds)) EXCEPT
                    !.cmds = Tail(kTimer.cmds)]
    /\ UNCHANGED <<cfg, wrapper, live, wrapperVars, kQueue, kSem, kMutex, kTask,
                   kstat, pend, call, aborted>>

\* the kernel wakes a task waiting for room in the timer command queue
OSTimer_unblock(c) ==
    /\ wrapper = "OSTimer" /\ ~aborted /\ pend[c].st = "blocked"
    /\ LET r == xTimerGenericCommand(kTimer,
                   IF pend[c].op = "restart" THEN "reset" ELSE "pend", NoVal, 0)
       IN /\ r.res
          /\ kTimer' = r.k
          /\ Resume(c, TRUE, NoVal)
    /\ OSTimer_frame

-----------------------------------------------------------------------------
(* Kernel task behind the wrapper, as the wrapper calls it *)

NoTask == [exists |-> FALSE, suspended |-> FALSE, notify |-> 0, xTickCount |-> 0]

\* xTaskCreate / xTaskCreateStatic: the new task is ready, nothing is notified
xTaskCreate(k) == [k EXCEPT !.exists = TRUE, !.suspended = FALSE, !.notify = 0]

vTaskSuspend(k) == KRes([k EXCEPT !.suspended = TRUE], TRUE, FALSE, FALSE, NoVal)

vTaskResume(k) == KRes([k EXCEPT !.suspended = FALSE], TRUE, FALSE, FALSE, NoVal)

\* returns pdTRUE when the resumed task should run at once
xTaskResumeFromISR(k, w) ==
    KRes([k EXCEPT !.suspended = FALSE], TRUE, w /\ k.suspended, FALSE, NoVal)

\* increments the notification value of the task; always pdPASS
xTaskNotifyGive(k) == KRes([k EXCEPT !.notify = @ + 1], TRUE, FALSE, FALSE, NoVal)

vTaskNotifyGiveFromISR(k, w) == KRes([k EXCEPT !.notify = @ + 1], TRUE, w, FALSE, NoVal)

\* a take that returns at once when nothing has been notified
ulTaskNotifyTake_noWait(k, c) == KRes([k EXCEPT !.notify = 0], TRUE, FALSE, FALSE, NoVal)

\* ulTaskNotifyTake(pdFALSE, ticks): the notification value is decremented
ulTaskNotifyTake_counting(k, c) ==
    IF c = "T1" /\ k.notify > 0
    THEN KRes([k EXCEPT !.notify = @ - 1], TRUE, FALSE, FALSE, NoVal)
    ELSE KRes(k, FALSE, FALSE, TRUE, NoVal)

\* ulTaskNotifyTake(pdTRUE, ticks) by caller c: the caller's own notification value
\* is read and cleared.  Only the wrapper's task ("T1") is ever notified.  A zero
\* return sends waitSignal round its loop again, so the caller stays inside.
ulTaskNotifyTake(k, c) ==
    IF c = "T1" /\ k.notify > 0
    THEN KRes([k EXCEPT !.notify = 0], TRUE, FALSE, FALSE, NoVal)
    ELSE KRes(k, FALSE, FALSE, TRUE, NoVal)

\* xTaskDelayUntil(&last, inc): the next wake time and whether the caller sleeps
xTaskDelayUntilWake(last, inc) == (last + inc) % TickMod

xTaskDelayUntilShouldDelay(now, last, inc) ==
    LET wake == xTaskDelayUntilWake(last, inc) IN
    IF now < last THEN wake < last /\ wake > now
    ELSE wake < last \/ wake > now

-----------------------------------------------------------------------------
(* OSTask: rtos_helper_task.hpp *)

OSTask_new == [m_TaskFuncPtr |-> "vAppMainTask", m_TaskName |-> "AppMainTask",
               m_TaskArgument |-> "nullptr", m_TaskHandle |-> NULL,
               m_xLastWakeTime |-> 0, m_initialized |-> FALSE]

\* the wrapper's own task "T1" runs code only while it exists and is not suspended
TaskRuns(c) == c = "T1" => kTask.exists /\ ~kTask.suspended

OSTask_frame == UNCHANGED <<cfg, wrapper, live, queue, counter, mutex, timer, task,
                            kQueue, kSem, kMutex, kTimer, kstat>>

\* a setter that stores the new value before it looks at m_initialized
OSTask_set_early(op, c, nullOk, new, member) ==
    /\ CanCall(c, "OSTask") /\ c \in Tasks
    /\ (c = "T1" => kTask.exists /\ ~kTask.suspended)
    /\ LET pre == task.m_TaskHandle # NULL /\ task.m_initialized IN
       /\ task' = [task EXCEPT ![member] = new]
       /\ IF cfg.assert /\ (task.m_initialized \/ (~nullOk /\ new = "nullptr"))
          THEN Trip(op, c, pre, <<>>, NoVal)
          ELSE Return(op, c, pre, ~task.m_initialized, NoVal, NoVal)
    /\ UNCHANGED <<cfg, wrapper, live, queue, counter, mutex, timer, kernelVars, kstat>>

\* setName / setFunction / setArg:
\*   assert(m_initialized == false); [assert(new != nullptr);]
\*   if (m_initialized) return false;  member = new;  return true;
OSTask_set(op, c, nullOk, new, member) ==
    /\ CanCall(c, "OSTask") /\ c \in Tasks /\ TaskRuns(c)
    /\ LET pre == task.m_TaskHandle # NULL /\ task.m_initialized IN
       IF cfg.assert /\ (task.m_initialized \/ (~nullOk /\ new = "nullptr"))
       THEN Trip(op, c, pre, <<>>, NoVal) /\ task' = task
       ELSE IF task.m_initialized
       THEN Return(op, c, pre, FALSE, NoVal, NoVal) /\ task' = task
       ELSE /\ Return(op, c, pre, TRUE, NoVal, NoVal)
            /\ task' = [task EXCEPT ![member] = new]
    /\ UNCHANGED <<cfg, wrapper, live, queue, counter, mutex, timer, kernelVars, kstat>>

OSTask_setName(c, newName) == OSTask_set("setName", c, FALSE, newName, "m_TaskName")

OSTask_setFunction(c, TaskFuncPtr) ==
    OSTask_set("setFunction", c, FALSE, TaskFuncPtr, "m_TaskFuncPtr")

OSTask_setArg(c, TaskArgument) ==
    OSTask_set("setArg", c, TRUE, TaskArgument, "m_TaskArgument")

\* init: assert(m_TaskName != nullptr); assert(m_TaskFuncPtr != nullptr);
\* static:  m_TaskHandle = xTaskCreateStatic(...);
\* dynamic: xTaskCreate(..., &m_TaskHandle);   the handle is written on success only
\* assert(m_TaskHandle); if (m_TaskHandle != nullptr) m_initialized = true;
\* return m_initialized;
OSTask_init(c, ok) ==
    /\ CanCall(c, "OSTask") /\ c \in Tasks /\ TaskRuns(c) /\ AllIdle
    /\ kstat.created < MaxCreated
    /\ ok \in AllocOutcomes
    /\ LET pre == task.m_TaskHandle # NULL /\ task.m_initialized
           fn == IF cfg.static THEN "xTaskCreateStatic" ELSE "xTaskCreate"
           h == IF ok THEN NewHandle ELSE task.m_TaskHandle
           inited == task.m_initialized \/ h # NULL
       IN
       IF cfg.assert /\ (task.m_TaskName = "nullptr" \/ task.m_TaskFuncPtr = "nullptr")
       THEN /\ Trip("init", c, pre, <<>>, NoVal)
            /\ UNCHANGED <<task, kTask, kstat>>
       ELSE /\ task' = [task EXCEPT !.m_TaskHandle = h, !.m_initialized = inited]
            /\ kTask' = IF ok THEN xTaskCreate(kTask) ELSE kTask
            /\ kstat' = [kstat EXCEPT !.created = IF ok THEN @ + 1 ELSE @]
            /\ IF cfg.assert /\ h = NULL
               THEN Trip("init", c, pre, <<KCall(fn, NoTicks)>>, NoVal)
               ELSE /\ call' = CallRec("init", c, "returned", pre,
                                       <<KCall(fn, NoTicks)>>, FALSE, 0, inited,
                                       Created(ok), NoVal)
                    /\ UNCHANGED <<aborted, pend>>
    /\ UNCHANGED <<cfg, wrapper, live, queue, counter, mutex, timer,
                   kQueue, kSem, kMutex, kTimer>>

\* init() with the task it creates running beside it.  xTaskCreate writes
\* m_TaskHandle through its last argument before the new task is made ready, so
\* the dynamic init is one step.  xTaskCreateStatic makes the task ready and then
\* returns the handle: the assignment to m_TaskHandle is a later step
\* (pend[c].st = "storing") and the new task may run before it.
OSTask_initStart(c, ok) ==
    IF ~cfg.static THEN OSTask_init(c, ok)
    ELSE /\ CanCall(c, "OSTask") /\ c \in Tasks /\ TaskRuns(c) /\ AllIdle
         /\ kstat.created < MaxCreated
         /\ ok \in AllocOutcomes
         /\ LET pre == task.m_TaskHandle # NULL /\ task.m_initialized IN
            IF cfg.assert /\ (task.m_TaskName = "nullptr" \/ task.m_TaskFuncPtr = "nullptr")
            THEN Trip("init", c, pre, <<>>, NoVal) /\ UNCHANGED <<kTask, kstat>>
            ELSE /\ kTask' = xTaskCreate(kTask)
                 /\ kstat' = [kstat EXCEPT !.created = @ + 1]
                 /\ pend' = [pend EXCEPT ![c] =
                               [st |-> "storing", op |-> "init", fn |-> "xTaskCreateStatic",
                                ticks |-> NoTicks, arg |-> kstat.created + 1, pre |-> pre]]
                 /\ UNCHANGED <<call, aborted>>
         /\ UNCHANGED <<cfg, wrapper, live, queue, counter, mutex, timer, task,
                        kQueue, kSem, kMutex, kTimer>>

\* m_TaskHandle = <value returned>; assert(m_TaskHandle);
\* if (m_TaskHandle != nullptr) m_initialized = true; return m_initialized;
OSTask_initStore(c) ==
    /\ wrapper = "OSTask" /\ ~aborted /\ pend[c].st = "storing"
    /\ task' = [task EXCEPT !.m_TaskHandle = 1, !.m_initialized = TRUE]
    /\ call' = CallRec("init", c, "returned", pend[c].pre,
                       <<KCall(pend[c].fn, NoTicks)>>, FALSE, 0, TRUE, 1, NoVal)
    /\ pend' = [pend EXCEPT ![c] = Idle]
    /\ UNCHANGED <<cfg, wrapper, live, queue, counter, mutex, timer, kernelVars,
                   kstat, aborted>>

\* stop: vTaskSuspend(m_TaskHandle); return true;   not dispatched
OSTask_stop(c) ==
    /\ CanCall(c, "OSTask") /\ TaskRuns(c)
    /\ LET o == Outcome(<<KCall("vTaskSuspend", NoTicks)>>, FALSE, 0, vTaskSuspend(kTask))
       IN Invoke("stop", c, task.m_TaskHandle, task.m_initialized, NoVal,
                 FALSE, NoVal, o, kTask' = o.k, kTask' = kTask)
    /\ OSTask_frame

\* body of start: the result is true whatever the kernel answers
OSTask_startBody(c, w) ==
    LET a == Outcome(<<KCall("vTaskResume", NoTicks)>>, FALSE, 0, vTaskResume(kTask))
        r == xTaskResumeFromISR(kTask, w)
        b == Outcome(<<KCall("xTaskResumeFromISR", NoTicks)>>, r.woken,
                     yieldFunc(r.woken), r)
        lb == Outcome(<<KCall("xTaskResumeFromISR", NoTicks)>>, r.woken,
                      legacyYield(r.woken), r)
    IN dispatch(c, a, b, a, lb)

OSTask_start(c, w) ==
    /\ CanCall(c, "OSTask") /\ TaskRuns(c)
    /\ LET o == OSTask_startBody(c, w)
       IN Invoke("start", c, task.m_TaskHandle, task.m_initialized, NoVal,
                 FALSE, NoVal, o, kTask' = o.k, kTask' = kTask)
    /\ OSTask_frame

\* body of emitSignal
OSTask_emitSignalBody(c, w) ==
    LET a == Outcome(<<KCall("xTaskNotifyGive", NoTicks)>>, FALSE, 0,
                     xTaskNotifyGive(kTask))
        r == vTaskNotifyGiveFromISR(kTask, w)
        b == Outcome(<<KCall("vTaskNotifyGiveFromISR", NoTicks)>>, r.woken,
                     yieldFunc(r.woken), r)
        lb == Outcome(<<KCall("vTaskNotifyGiveFromISR", NoTicks)>>, r.woken,
                      legacyYield(r.woken), r)
    IN dispatch(c, a, b, a, lb)

OSTask_emitSignal(c, w) ==
    /\ CanCall(c, "OSTask") /\ TaskRuns(c)
    /\ kTask.notify < MaxNotify
    /\ LET o == OSTask_emitSignalBody(c, w)
       IN Invoke("emitSignal", c, task.m_TaskHandle, task.m_initialized, NoVal,
                 FALSE, NoVal, o, kTask' = o.k, kTask' = kTask)
    /\ OSTask_frame

\* The shape shared by waitSignal, syncWaitInit and syncWait, called by a task:
\*     assert(xTaskGetSchedulerState() == taskSCHEDULER_RUNNING);
\*     #if (INCLUDE_xTaskGetCurrentTaskHandle == 1)
\*     assert(m_TaskHandle == xTaskGetCurrentTaskHandle());
\*     <kernel call on the calling task>
\* Neither m_TaskHandle nor m_initialized is looked at otherwise.
InvokeSelf(op, c, arg, o, Effect, NoEffect) ==
    LET pre == task.m_TaskHandle # NULL /\ task.m_initialized IN
    IF cfg.assert /\ cfg.curHandle /\ ~(task.m_TaskHandle # NULL /\ c = "T1")
    THEN Trip(op, c, pre, <<>>, arg) /\ NoEffect
    ELSE IF o.block
    THEN /\ pend' = [pend EXCEPT ![c] =
                       [st |-> "blocked", op |-> op, fn |-> o.kcalls[1].fn,
                        ticks |-> o.kcalls[1].ticks, arg |-> arg, pre |-> pre]]
         /\ call' = CallRec(op, c, "blocked", pre, o.kcalls, FALSE, 0, FALSE, NoVal, arg)
         /\ aborted' = aborted
         /\ Effect
    ELSE /\ call' = CallRec(op, c, "returned", pre, o.kcalls, FALSE, 0, TRUE, NoVal, arg)
         /\ UNCHANGED <<aborted, pend>>
         /\ Effect

\* waitSignal: do { } while (ulTaskNotifyTake(pdTRUE, pdMS_TO_TICKS(xMsToWait)) == pdFALSE);
OSTask_waitSignal(c, xMsToWait) ==
    /\ CanCall(c, "OSTask") /\ c \in Tasks /\ TaskRuns(c)
    /\ LET r == ulTaskNotifyTake(kTask, c)
           o == Outcome(<<KCall("ulTaskNotifyTake", pdMS_TO_TICKS(xMsToWait))>>,
                        FALSE, 0, r)
       IN InvokeSelf("waitSignal", c, xMsToWait, o, kTask' = o.k, kTask' = kTask)
    /\ OSTask_frame

\* syncWaitInit: m_xLastWakeTime = xTaskGetTickCount();
OSTask_syncWaitInit(c) ==
    /\ CanCall(c, "OSTask") /\ c \in Tasks /\ TaskRuns(c)
    /\ LET o == Outcome(<<KCall("xTaskGetTickCount", NoTicks)>>, FALSE, 0,
                        KRes(kTask, TRUE, FALSE, FALSE, NoVal))
       IN InvokeSelf("syncWaitInit", c, NoVal, o,
                     task' = [task EXCEPT !.m_xLastWakeTime = kTask.xTickCount],
                     task' = task)
    /\ UNCHANGED <<cfg, wrapper, live, queue, counter, mutex, timer, kernelVars, kstat>>

\* a delay counted from the tick of the call, as vTaskDelay counts it
OSTask_syncWait_relative(c, xMsToWait, max) ==
    /\ CanCall(c, "OSTask") /\ c \in Tasks /\ TaskRuns(c)
    /\ LET inc == pdMS_TO_TICKS(xMsToWait)
           wake == xTaskDelayUntilWake(kTask.xTickCount, inc)
           o == Outcome(<<KCall("xTaskDelayUntil", inc)>>, FALSE, 0,
                        KRes(kTask, TRUE, FALSE, inc > 0, NoVal))
       IN /\ wake <= max
          /\ InvokeSelf("syncWait", c, wake, o,
                        task' = [task EXCEPT !.m_xLastWakeTime = wake], task' = task)
    /\ UNCHANGED <<cfg, wrapper, live, queue, counter, mutex, timer, kernelVars, kstat>>

\* syncWait: xTaskDelayUntil(&m_xLastWakeTime, pdMS_TO_TICKS(xMsToWait));
\* the blocked caller remembers its wake time; wake times are followed up to max
OSTask_syncWait(c, xMsToWait, max) ==
    /\ CanCall(c, "OSTask") /\ c \in Tasks /\ TaskRuns(c)
    /\ LET inc == pdMS_TO_TICKS(xMsToWait)
           wake == xTaskDelayUntilWake(task.m_xLastWakeTime, inc)
           o == Outcome(<<KCall("xTaskDelayUntil", inc)>>, FALSE, 0,
                        KRes(kTask, TRUE, FALSE,
                             xTaskDelayUntilShouldDelay(kTask.xTickCount,
                                                        task.m_xLastWakeTime, inc),
                             NoVal))
       IN /\ wake <= max
          /\ InvokeSelf("syncWait", c, wake, o,
                        task' = [task EXCEPT !.m_xLastWakeTime = wake], task' = task)
    /\ UNCHANGED <<cfg, wrapper, live, queue, counter, mutex, timer, kernelVars, kstat>>

\* ~OSTask:
\*   #if (INCLUDE_vTaskDelete == 1)
\*     assert(m_TaskHandle); vTaskDelete(m_TaskHandle); m_TaskHandle = nullptr;
\*   #else
\*     assert(nullptr);
\* vTaskDelete(NULL) deletes the calling task.
OSTask_dtor(c, INCLUDE_vTaskDelete) ==
    /\ CanCall(c, "OSTask") /\ c = "T2"
    /\ LET pre == task.m_TaskHandle # NULL /\ task.m_initialized IN
       IF cfg.assert /\ (~INCLUDE_vTaskDelete \/ task.m_TaskHandle = NULL)
       THEN Trip("dtor", c, pre, <<>>, NoVal) /\ UNCHANGED <<task, kTask, kstat, live>>
       ELSE IF ~INCLUDE_vTaskDelete
       THEN /\ call' = CallRec("dtor", c, "returned", pre, <<>>, FALSE, 0, FALSE,
                               NoVal, NoVal)
            /\ live' = FALSE
            /\ UNCHANGED <<task, kTask, kstat, aborted, pend>>
       ELSE IF task.m_TaskHandle = NULL
       THEN /\ call' = CallRec("dtor", c, "undefined", pre,
                               <<KCall("vTaskDelete", NoTicks)>>, FALSE, 0, FALSE,
                               NoVal, NoVal)
            /\ aborted' = TRUE
            /\ UNCHANGED <<task, kTask, kstat, live, pend>>
       ELSE /\ call' = CallRec("dtor", c, "returned", pre,
                               <<KCall("vTaskDelete", NoTicks)>>, FALSE, 0, FALSE,
                               NoVal, NoVal)
            /\ task' = [task EXCEPT !.m_TaskHandle = NULL]
            /\ kTask' = [kTask EXCEPT !.exists = FALSE]
            /\ kstat' = [kstat EXCEPT !.deleted = @ + 1]
            /\ pend' = [pend EXCEPT !["T1"] = Idle]
            /\ live' = FALSE
            /\ aborted' = aborted
    /\ UNCHANGED <<cfg, wrapper, queue, counter, mutex, timer, kQueue, kSem, kMutex, kTimer>>

\* the tick interrupt; the tick count is followed up to max
Tick(max) ==
    /\ wrapper = "OSTask" /\ ~aborted /\ live
    /\ kTask.xTickCount < max
    /\ kTask' = [kTask EXCEPT !.xTickCount = @ + 1]
    /\ UNCHANGED <<cfg, wrapper, live, wrapperVars, kQueue, kSem, kMutex, kTimer,
                   kstat, pend, call, aborted>>

\* the kernel wakes the task waiting in ulTaskNotifyTake: waitSignal returns
OSTask_notified(c) ==
    /\ wrapper = "OSTask" /\ ~aborted /\ TaskRuns(c)
    /\ pend[c].st = "blocked" /\ pend[c].fn = "ulTaskNotifyTake"
    /\ LET r == ulTaskNotifyTake(kTask, c)
       IN /\ ~r.block
          /\ kTask' = r.k
          /\ Resume(c, TRUE, NoVal)
    /\ OSTask_frame

\* the wait of ulTaskNotifyTake elapses with nothing notified: it returns 0 and the
\* do { } while (... == pdFALSE) of waitSignal calls it again
OSTask_waitRetry(c) ==
    /\ wrapper = "OSTask" /\ ~aborted /\ TaskRuns(c)
    /\ pend[c].st = "blocked" /\ pend[c].fn = "ulTaskNotifyTake"
    /\ pend[c].ticks # portMAX_DELAY
    /\ ulTaskNotifyTake(kTask, c).block
    /\ call' = CallRec("waitSignal", c, "blocked", pend[c].pre,
                       <<KCall(pend[c].fn, pend[c].ticks), KCall(pend[c].fn, pend[c].ticks)>>,
                       FALSE, 0, FALSE, NoVal, pend[c].arg)
    /\ UNCHANGED <<kTask, pend, aborted>>
    /\ OSTask_frame

\* the wake time of a task in xTaskDelayUntil is reached: syncWait returns
OSTask_delayElapsed(c) ==
    /\ wrapper = "OSTask" /\ ~aborted /\ TaskRuns(c)
    /\ pend[c].st = "blocked" /\ pend[c].fn = "xTaskDelayUntil"
    /\ kTask.xTickCount >= pend[c].arg
    /\ Resume(c, TRUE, NoVal)
    /\ kTask' = kTask
    /\ OSTask_frame

-----------------------------------------------------------------------------

Init ==
    /\ wrapper \in Classes
    /\ cfg \in Configs(wrapper)
    /\ live = TRUE
    /\ queue = OSQueue_new
    /\ counter = Counter_new
    /\ mutex = OSMutex_new
    /\ timer = OSTimer_new
    /\ task = OSTask_new
    /\ kQueue = NoQueue
    /\ kSem = NoSem
    /\ kMutex = NoMutex
    /\ kTimer = NoTimer
    /\ kTask = NoTask
    /\ kstat = [created |-> 0, deleted |-> 0]
    /\ pend = [c \in Callers |-> Idle]
    /\ call = NoCall
    /\ aborted = FALSE

Next ==
    \/ \E c \in MainCallers : \E ms \in WaitMs, w \in Woken(c) : OSQueue_send(c, 1, ms, w)
    \/ \E c \in MainCallers : \E ms \in WaitMs, w \in Woken(c) : OSQueue_receive(c, 0, ms, w)
    \/ \E c \in MainCallers, ms \in WaitMs : OSQueue_peek(c, 0, ms)
    \/ \E c \in MainCallers : OSQueue_isEmpty(c)
    \/ \E c \in MainCallers : OSQueue_getFreeSpace(c)
    \/ \E c \in MainCallers : OSQueue_fflush(c)
    \/ \E c \in MainTasks, n \in {0, 1, QueueSize + 1} : OSQueue_setSize(c, n)
    \/ \E c \in MainTasks, ok \in BOOLEAN : OSQueue_init(c, ok)
    \/ \E c \in MainTasks : OSQueue_dtor(c)
    \/ \E c \in MainTasks : OSQueue_unblock(c)
    \/ \E c \in MainCallers : \E ms \in WaitMs, w \in Woken(c) : Counter_take(c, ms, w)
    \/ \E c \in MainCallers : \E w \in Woken(c) : Counter_give(c, w)
    \/ \E c \in MainCallers : \E w \in Woken(c) : Counter_reset(c, w)
    \/ \E c \in MainTasks, ok \in BOOLEAN : Counter_init(c, ok)
    \/ \E c \in MainTasks : Counter_dtor(c)
    \/ \E c \in MainTasks : Counter_unblock(c)
    \/ \E c \in Callers, ms \in WaitMs : OSMutex_lock(c, ms)
    \/ \E c \in Callers : OSMutex_unlock(c)
    \/ \E c \in MainTasks, ok \in BOOLEAN : OSMutex_init(c, ok)
    \/ \E c \in MainTasks : OSMutex_dtor(c)
    \/ \E c \in Tasks : OSMutex_unblock(c)
    \/ \E c \in MainCallers : \E ms \in PeriodMs, d \in Preempt(c), w1, w2 \in Woken(c) :
          OSTimer_start(c, ms, d, w1, w2)
    \/ \E c \in MainCallers : \E w \in Woken(c) : OSTimer_stop(c, w)
    \/ \E c \in MainCallers : \E ms \in PeriodMs, w \in Woken(c) : OSTimer_restart(c, ms, w)
    \/ \E c \in MainCallers : OSTimer_isActive(c)
    \/ \E c \in MainCallers : \E fnOk \in BOOLEAN, w \in Woken(c) :
          OSTimer_asyncCall(c, fnOk, 0, w)
    \/ \E c \in MainTasks, n \in {"renamed"} : OSTimer_setName(c, n)
    \/ \E c \in MainTasks, ok \in BOOLEAN : OSTimer_init(c, ok)
    \/ \E c \in MainTasks : OSTimer_dtor(c)
    \/ \E c \in MainTasks : OSTimer_unblock(c)
    \/ TimerService
    \/ \E c \in {"T2"} : OSTask_setName(c, "renamed")
    \/ \E c \in {"T2"} : OSTask_setFunction(c, "vAppMainTask")
    \/ \E c \in {"T2"} : OSTask_setArg(c, "nullptr")
    \/ \E c \in {"T2"}, ok \in BOOLEAN : OSTask_init(c, ok)
    \/ \E c \in {"T2", ISR} : OSTask_stop(c)
    \/ \E c \in {"T2", ISR} : \E w \in Woken(c) : OSTask_start(c, w)
    \/ \E c \in {"T2", ISR} : \E w \in Woken(c) : OSTask_emitSignal(c, w)
    \/ \E c \in Tasks : OSTask_waitSignal(c, portMAX_DELAY_MS)
    \/ \E c \in {"T1"} : OSTask_syncWaitInit(c)
    \/ \E c \in {"T1"} : OSTask_syncWait(c, 1, MaxTick)
    \/ \E c \in {"T2"}, d \in BOOLEAN : OSTask_dtor(c, d)
    \/ \E c \in Tasks : OSTask_notified(c)
    \/ \E c \in Tasks : OSTask_delayElapsed(c)
    \/ Tick(MaxTick)
    \/ \E c \in Tasks : KernelTimeout(c)

Spec == Init /\ [][Next]_vars

-----------------------------------------------------------------------------
(* Vocabulary of the properties *)

\* the operations that go through the dual-context dispatch
DispatchedOps(w) ==
    CASE w = "OSQueue" -> {"send", "receive", "peek"}
      [] w = "Counter" -> {"take", "give", "reset"}
      [] w = "OSTimer" -> {"start", "stop", "restart", "asyncCall"}
      [] w = "OSTask" -> {"start", "emitSignal"}
      [] OTHER -> {}

\* the operations that need the kernel object
ReadyOps(w) ==
    CASE w = "OSQueue" -> {"send", "receive", "peek", "isEmpty", "getFreeSpace", "fflush"}
      [] w = "Counter" -> {"take", "give", "reset"}
      [] w = "OSMutex" -> {"lock", "unlock"}
      [] w = "OSTimer" -> {"start", "stop", "restart", "isActive"}
      [] w = "OSTask" -> {"stop", "start", "emitSignal", "waitSignal", "syncWait"}
      [] OTHER -> {}

\* the configuration mutators
Mutators(w) ==
    CASE w = "OSQueue" -> {"setSize"}
      [] w = "OSTimer" -> {"setName"}
      [] w = "OSTask" -> {"setName", "setFunction", "setArg"}
      [] OTHER -> {}

\* getHandler() and m_initialized of the wrapper object
Handle ==
    CASE wrapper = "OSQueue" -> queue.m_xQueueHandler
      [] wrapper = "Counter" -> counter.m_xCounter
      [] wrapper = "OSMutex" -> mutex.m_MutexHandler
      [] wrapper = "OSTimer" -> timer.m_xTimerHandler
      [] OTHER -> task.m_TaskHandle

Initialized ==
    CASE wrapper = "OSQueue" -> queue.m_initialized
      [] wrapper = "Counter" -> counter.m_initialized
      [] wrapper = "OSMutex" -> mutex.m_initialized
      [] wrapper = "OSTimer" -> timer.m_initialized
      [] OTHER -> task.m_initialized

\* what the getters of the configuration read
StoredConfig ==
    <<queue.m_xQueueSize, timer.m_TimerName,
      task.m_TaskName, task.m_TaskFuncPtr, task.m_TaskArgument>>

\* the kernel delete calls of the last invocation
Deletes == {i \in DOMAIN call.kcalls : call.kcalls[i].fn \in DeleteCalls}

-----------------------------------------------------------------------------
(* Properties *)

\* C1: a dispatched operation (OSQueue send/receive/peek, Counter take/give/reset,
\* OSTimer start/stop/restart/asyncCall, OSTask start/emitSignal) called in interrupt
\* context issues only FromISR kernel calls, none of which carries a wait time; called
\* in task context it issues only task-context kernel calls.
C1_DispatchByContext ==
    call.op \in DispatchedOps(wrapper) =>
        \A i \in DOMAIN call.kcalls :
            IF call.ctx = ISR
            THEN call.kcalls[i].fn \in FromISRCalls /\ call.kcalls[i].ticks = NoTicks
            ELSE call.kcalls[i].fn \notin FromISRCalls

\* OSTimer::start ran in an ISR and made its two FromISR calls
C1_Reached ==
    /\ wrapper = "OSTimer" /\ call.op = "start" /\ call.ctx = ISR
    /\ call.st = "returned"
    /\ call.kcalls = <<KCall("xTimerChangePeriodFromISR", NoTicks),
                       KCall("xTimerStartFromISR", NoTicks)>>

\* C2: an invocation of a dispatched operation requests a reschedule exactly once
\* when it ran in interrupt context and a FromISR call reported a higher priority
\* task woken, and not at all otherwise; OSTimer::start, with its two kernel calls,
\* included.
C2_OneYieldPerCall ==
    (call.op \in DispatchedOps(wrapper) /\ call.st \in {"returned", "blocked"}) =>
        call.yields = (IF call.ctx = ISR /\ call.woken THEN 1 ELSE 0)

\* OSTimer::start in an ISR, a task woken, one reschedule request for two calls
C2_Reached ==
    /\ wrapper = "OSTimer" /\ call.op = "start" /\ call.ctx = ISR
    /\ call.st = "returned" /\ Len(call.kcalls) = 2
    /\ call.woken /\ call.yields = 1

\* C3: with assertions active, lock and unlock of an initialised OSMutex called in
\* interrupt context trip an assertion and make no kernel call.
C3_MutexAssertsInIsr ==
    (wrapper = "OSMutex" /\ call.op \in {"lock", "unlock"} /\ call.ctx = ISR
     /\ call.pre /\ cfg.assert) =>
        (call.st = "asserted" /\ call.kcalls = <<>>)

\* C4: with assertions active, an operation that needs the Ready state, invoked
\* before a successful init, trips an assertion, makes no kernel call and does not
\* return.
C4_FailFastBeforeInit ==
    (call.op \in ReadyOps(wrapper) /\ ~call.pre /\ cfg.assert) =>
        (call.st = "asserted" /\ call.kcalls = <<>>)

C6_InitTrueIffCreated ==
    (call.op = "init" /\ call.st = "returned") => (call.res <=> Handle # NULL)

\* C7: when the kernel cannot allocate the object, init() of an Unconfigured
\* wrapper returns false instead of tripping an assertion, the handle stays null and
\* the wrapper is not marked initialised.
C7_AllocFailureReported ==
    (/\ call.op = "init" /\ ~call.pre /\ call.kcalls # <<>>
     /\ (call.st = "asserted" \/ call.out = NULL)) =>
        (call.st = "returned" /\ ~call.res /\ Handle = NULL /\ ~Initialized)

\* C8: the handle is null before init; once an init has succeeded the handle keeps
\* its value and no further kernel object is created for the wrapper until it is
\* destructed.
C8_HandleStable ==
    [][/\ ~Initialized => Handle = NULL
       /\ (Initialized /\ Handle # NULL /\ live') =>
             (Handle' = Handle /\ kstat'.created = kstat.created)]_vars

\* C9: the destructor of a Ready wrapper makes exactly one kernel delete call and
\* nulls the handle; the destructor of a wrapper that was never initialised makes
\* no kernel delete call.
C9_DtorReleasesOnce ==
    call.op = "dtor" =>
        IF call.pre
        THEN call.st = "returned" /\ Cardinality(Deletes) = 1 /\ Handle = NULL
        ELSE Deletes = {}

\* C10: the queue holds between 0 and N items, N its capacity; a zero-wait send
\* succeeds exactly when fewer than N items are queued and then adds one item, a
\* failed one leaves the items alone, and a successful receive takes one item away.
C10_QueueCapacity ==
    /\ [](kQueue.exists =>
             /\ kQueue.uxLength = queue.m_xQueueSize
             /\ Len(kQueue.items) \in 0..kQueue.uxLength)
    /\ [][(/\ wrapper = "OSQueue" /\ call'.op = "send" /\ call'.pre
           /\ call'.st = "returned" /\ call'.kcalls[1].ticks \in {0, NoTicks}) =>
             /\ call'.res <=> Len(kQueue.items) < kQueue.uxLength
             /\ Len(kQueue'.items) = Len(kQueue.items) + (IF call'.res THEN 1 ELSE 0)
             /\ ~call'.res => kQueue' = kQueue]_vars
    /\ [][(/\ wrapper = "OSQueue" /\ call'.op = "receive" /\ call'.pre
           /\ call'.st = "returned" /\ call'.res) =>
             Len(kQueue'.items) = Len(kQueue.items) - 1]_vars

\* the queue is full and a zero-wait send has just been refused
C10_Reached ==
    /\ wrapper = "OSQueue" /\ call.op = "send" /\ call.pre /\ call.ctx # ISR
    /\ call.st = "returned" /\ ~call.res /\ call.kcalls[1].ticks = 0
    /\ Len(kQueue.items) = QueueSize /\ kQueue.uxLength = QueueSize

-----------------------------------------------------------------------------
(* C11: a producer and a consumer on one OSQueue, QueueCreation.ino *)

\* one queue; T1 and the interrupt send the values of Vals, T2 and the interrupt
\* receive them
FifoInit == Init /\ wrapper = "OSQueue"

FifoNext ==
    \/ \E c \in {"T1", ISR} : \E val \in Vals, ms \in WaitMs, w \in Woken(c) :
          OSQueue_send(c, val, ms, w)
    \/ \E c \in {"T2", ISR} : \E ms \in WaitMs, w \in Woken(c) :
          OSQueue_receive(c, NoVal, ms, w)
    \/ \E c \in {"T2", ISR}, ms \in WaitMs : OSQueue_peek(c, NoVal, ms)
    \/ \E c \in Callers : OSQueue_isEmpty(c)
    \/ \E c \in Callers : OSQueue_getFreeSpace(c)
    \/ \E c \in {"T1"}, ok \in BOOLEAN : OSQueue_init(c, ok)
    \/ \E c \in Tasks : OSQueue_unblock(c)
    \/ \E c \in Tasks : KernelTimeout(c)

SpecFifo == FifoInit /\ [][FifoNext]_vars

\* C11: the queue delivers by value, in the order of sending, each item once: the
\* stored items change only when a successful send puts its value behind them or a
\* successful receive takes the oldest one and returns it (or init makes the
\* queue), a successful send always stores its value, a successful receive always
\* removes what it returns, and isEmpty() answers true exactly when every item
\* sent has been received.
C11_FifoOrder ==
    /\ [][kQueue'.items # kQueue.items =>
            \/ /\ call'.op = "send" /\ call'.st = "returned" /\ call'.res
               /\ kQueue'.items = Append(kQueue.items, call'.arg)
            \/ /\ call'.op = "receive" /\ call'.st = "returned" /\ call'.res
               /\ call'.out = Head(kQueue.items)
               /\ kQueue'.items = Tail(kQueue.items)
            \/ /\ call'.op = "init" /\ kQueue'.items = <<>>]_vars
    /\ [][(call' # call /\ call'.st = "returned" /\ call'.pre /\ call'.res) =>
            /\ call'.op = "send" => kQueue'.items = Append(kQueue.items, call'.arg)
            /\ call'.op = "receive" =>
                  /\ kQueue.items # <<>>
                  /\ call'.out = Head(kQueue.items)
                  /\ kQueue'.items = Tail(kQueue.items)]_vars
    /\ [][(call' # call /\ call'.op = "isEmpty" /\ call'.st = "returned" /\ call'.pre) =>
            (call'.res <=> kQueue.items = <<>>)]_vars

\* 0 then 1 were sent, the receive returned the 0 and the 1 is still queued
C11_Reached ==
    /\ call.op = "receive" /\ call.st = "returned" /\ call.res
    /\ call.out = 0 /\ kQueue.items = <<1>>

\* C12: a peek, in a task or in an interrupt, succeeding, failing or blocking,
\* leaves the kernel queue as it was, so the free space is what it was before; a
\* successful peek returns the oldest item, which is still the head of the queue
\* and therefore what the next receive returns; getFreeSpace() reports the
\* capacity less the number of stored items.
C12_PeekLeavesQueue ==
    /\ [][(call' # call /\ call'.op = "peek") =>
            /\ kQueue' = kQueue
            /\ uxQueueSpacesAvailable(kQueue') = uxQueueSpacesAvailable(kQueue)
            /\ (call'.st = "returned" /\ call'.res) =>
                  /\ kQueue'.items # <<>>
                  /\ call'.out = Head(kQueue'.items)]_vars
    /\ [][(call' # call /\ call'.op = "getFreeSpace" /\ call'.st = "returned"
              /\ call'.pre) =>
            call'.out = kQueue.uxLength - Len(kQueue.items)]_vars

\* a peek in an interrupt returned the 0 sent first, and 0 and 1 are both queued
C12_Reached ==
    /\ call.op = "peek" /\ call.ctx = ISR /\ call.st = "returned" /\ call.res
    /\ call.out = 0 /\ kQueue.items = <<0, 1>>

-----------------------------------------------------------------------------
(* C13..C16: one Counter used by two tasks and an interrupt *)

CounterInit == Init /\ wrapper = "Counter"

\* T1 and the interrupt reset the counter, T2 and the interrupt give and take; a
\* give or a take may fall inside a running reset
CounterNext ==
    \/ \E c \in {"T1"}, ok \in BOOLEAN : Counter_init(c, ok)
    \/ \E c \in {"T2", ISR} : \E w \in Woken(c) : Counter_give(c, w)
    \/ \E c \in {"T2", ISR} : \E ms \in WaitMs, w \in Woken(c) : Counter_take(c, ms, w)
    \/ \E c \in {"T1", ISR} : Counter_resetEnter(c)
    \/ \E c \in {"T1", ISR} : Counter_resetTake(c)
    \/ \E c \in {"T1", ISR} : \E w \in Woken(c) : Counter_resetReturn(c, w)
    \/ \E c \in {"T2"} : Counter_unblock(c)
    \/ \E c \in {"T2"} : KernelTimeout(c)

SpecCounter == CounterInit /\ [][CounterNext]_vars

\* C13: the count of an initialised counter (init succeeded, the handle is set) is
\* 0 after init and stays within 0 .. MaxCount; a give() at MaxCount returns
\* false and a take with no wait at count 0 returns false at once, in a task and
\* in an interrupt, and neither changes the count.
C13_CountInRange ==
    /\ []((Initialized /\ Handle # NULL) =>
            kSem.exists /\ kSem.uxMax = MaxCount /\ kSem.count \in 0 .. MaxCount)
    /\ [][(call' # call /\ call'.op = "init" /\ call'.st = "returned" /\ call'.res
              /\ call'.out # NULL) => kSem'.count = 0]_vars
    /\ [][\A c \in {"T2", ISR} : \A w \in Woken(c) :
            (Counter_give(c, w) /\ Initialized /\ Handle # NULL
               /\ kSem.count = MaxCount) =>
                call'.st = "returned" /\ ~call'.res /\ kSem' = kSem]_vars
    /\ [][\A c \in {"T2", ISR} : \A w \in Woken(c) :
            (Counter_take(c, 0, w) /\ Initialized /\ Handle # NULL
               /\ kSem.count = 0) =>
                call'.st = "returned" /\ ~call'.res /\ kSem' = kSem]_vars

\* the count is at MaxCount and the give() of the interrupt has just been refused
C13_Reached ==
    /\ call.op = "give" /\ call.ctx = ISR /\ call.st = "returned" /\ call.pre
    /\ ~call.res /\ kSem.count = MaxCount

\* C14: a reset() that no give interrupts drains every count: when it returns the
\* count is 0, whatever it was before, and a take made next returns false.
C14_ResetDrains ==
    /\ []((call.op = "reset" /\ call.st = "returned" /\ call.pre) => kSem.count = 0)
    /\ [][(call.op = "reset" /\ call.st = "returned" /\ call.pre
              /\ call' # call /\ call'.op = "take" /\ call'.st = "returned") =>
            ~call'.res /\ kSem'.count = 0]_vars

\* the count was MaxCount, the reset made MaxCount + 1 takes and left 0
C14_Reached ==
    /\ call.op = "reset" /\ call.st = "returned" /\ call.pre
    /\ Len(call.kcalls) = MaxCount + 1 /\ kSem.count = 0

\* C15: the drain loop of reset() is bounded: a call makes at most MaxCount
\* successful takes before it returns, also when other tasks or interrupts give
\* while the loop runs.
C15_BoundedDrain ==
    /\ \A c \in Callers : pend[c].op = "reset" => pend[c].arg <= MaxCount
    /\ (call.op = "reset" /\ call.st = "returned" /\ call.pre) => call.arg <= MaxCount

\* C16: reset() is not atomic with respect to give(): the take that ends its loop
\* sees the count at 0, the return is a later step that leaves the count alone,
\* and a give() made between the two succeeds and raises the count, so the count
\* at the return is what those gives made of it (C16_Reached: it is nonzero).
C16_ResetNotAtomic ==
    /\ [][\A c \in Callers :
            (pend[c].op = "reset" /\ pend[c].st # "leaving"
               /\ pend'[c].st = "leaving") => kSem.count = 0 /\ kSem' = kSem]_vars
    /\ [][\A c \in Callers :
            (pend[c].st = "leaving" /\ pend'[c].st = "idle") =>
                /\ kSem' = kSem
                /\ call'.op = "reset" /\ call'.st = "returned" /\ call'.res]_vars
    /\ [][\A c \in Callers :
            (pend[c].st = "leaving" /\ call' # call /\ call'.op = "give"
               /\ call'.st = "returned" /\ call'.res) =>
                pend'[c].st = "leaving" /\ kSem'.count = kSem.count + 1]_vars

\* one reset() with a concurrent give(): the reset took a count, and the count is
\* nonzero at the moment it has returned
C16_Reached ==
    /\ call.op = "reset" /\ call.st = "returned" /\ call.pre /\ call.res
    /\ call.arg > 0 /\ kSem.count > 0

\* C17: start(p) on a timer that is already active resets its period to p: when
\* the call has returned true and the timer service task has executed the commands
\* queued at that moment, the timer is active and its period is p.
C17_StartSetsPeriod ==
    [][(call' # call /\ call'.op = "start" /\ call'.st = "returned" /\ call'.pre
          /\ call'.res /\ kTimer.active) =>
        LET k == prvProcessReceivedCommands(kTimer')
        IN k.active /\ k.period = pdMS_TO_TICKS(call'.arg)]_vars

\* C18: restart(p) restarts the timer with the provided time: when the call has
\* returned true, in a task or in an interrupt, and the timer service task has
\* executed the commands queued at that moment, the timer is active and its
\* period is p.
C18_RestartUsesPeriod ==
    [][(call' # call /\ call'.op = "restart" /\ call'.st = "returned" /\ call'.pre
          /\ call'.res) =>
        LET k == prvProcessReceivedCommands(kTimer')
        IN k.active /\ k.period = pdMS_TO_TICKS(call'.arg)]_vars

-----------------------------------------------------------------------------
(* C19, C20: the signal of one task; T1 is the task the OSTask object runs *)

SignalInit == Init /\ wrapper = "OSTask"

\* T2 creates the task; T2 and the interrupt signal, suspend and resume it; the
\* tasks wait for the signal
SignalNext ==
    \/ \E c \in {"T2"}, ok \in BOOLEAN : OSTask_init(c, ok)
    \/ \E c \in {"T2", ISR} : \E w \in Woken(c) : OSTask_emitSignal(c, w)
    \/ \E c \in Tasks, ms \in WaitMs : OSTask_waitSignal(c, ms)
    \/ \E c \in Tasks : OSTask_notified(c)
    \/ \E c \in Tasks : OSTask_waitRetry(c)
    \/ \E c \in {"T2", ISR} : OSTask_stop(c)
    \/ \E c \in {"T2", ISR} : \E w \in Woken(c) : OSTask_start(c, w)

SpecSignal == SignalInit /\ [][SignalNext]_vars

\* the task itself enters waitSignal, or comes back from it
WaitSignalStep ==
    /\ call' # call /\ call'.op = "waitSignal" /\ call'.ctx = "T1"
    /\ call'.st \in {"returned", "blocked"}

\* C19 as stated: waitSignal returns exactly once per emitSignal call, k calls of
\* emitSignal allow exactly k calls of waitSignal to return: a return uses up one
\* of the signals emitted and leaves the others.
C19_OncePerEmit ==
    [][(WaitSignalStep /\ call'.st = "returned") =>
        kTask.notify > 0 /\ kTask'.notify = kTask.notify - 1]_vars

\* C19: a task that calls waitSignal when no signal has been emitted blocks and
\* stays blocked until emitSignal is invoked; waitSignal returns only on a signal
\* emitted since the last return, at most once per emitSignal call: the return
\* uses up every signal emitted so far.
C19_BlockedUntilEmit ==
    /\ [][(WaitSignalStep /\ kTask.notify = 0) => call'.st = "blocked"]_vars
    /\ [][(WaitSignalStep /\ call'.st = "returned") =>
            kTask.notify > 0 /\ kTask'.notify = 0]_vars
    /\ [][(pend["T1"].op = "waitSignal" /\ pend'["T1"] # pend["T1"]) =>
            kTask.notify > 0 /\ WaitSignalStep /\ call'.st = "returned"]_vars

\* the task is blocked in waitSignal and a signal has just been emitted
C19_Reached ==
    /\ pend["T1"].st = "blocked" /\ pend["T1"].op = "waitSignal"
    /\ call.op = "emitSignal" /\ call.st = "returned" /\ call.res
    /\ kTask.notify = 1

\* C20: the signal is a single-slot binary semaphore: an emitSignal leaves a signal
\* pending however many were emitted before, a waitSignal that finds one or more
\* emitted signals returns and leaves none pending, so the waitSignal after it
\* blocks until a further emitSignal.
C20_SingleSlot ==
    /\ [][(call' # call /\ call'.op = "emitSignal" /\ call'.st = "returned"
              /\ call'.pre) => call'.res /\ kTask'.notify > 0]_vars
    /\ [][(WaitSignalStep /\ kTask.notify >= 1) =>
            call'.st = "returned" /\ kTask'.notify = 0]_vars
    /\ []((call.op = "waitSignal" /\ call.ctx = "T1" /\ call.st = "returned") =>
            kTask.notify = 0)
    /\ [][(call.op = "waitSignal" /\ call.ctx = "T1" /\ call.st = "returned"
              /\ WaitSignalStep) => call'.st = "blocked"]_vars

\* two signals were emitted while the task was not waiting
C20_Reached ==
    /\ pend["T1"].st = "idle" /\ kTask.notify >= 2
    /\ call.op = "emitSignal" /\ call.st = "returned" /\ call.res

\* C21: waitSignal(xMsToWait) is bounded by the wait time of its caller: with a
\* finite wait and no signal emitted, the step at which that wait elapses returns
\* waitSignal to its caller.
C21_WaitBounded ==
    [][(/\ pend["T1"].st = "blocked" /\ pend["T1"].op = "waitSignal"
        /\ pend["T1"].ticks # portMAX_DELAY /\ kTask.notify = 0
        /\ WaitSignalStep) => call'.st = "returned"]_vars

-----------------------------------------------------------------------------
(* C22: the startup rendezvous of TaskCreation.ino *)

\* setup() in T2 creates the task and then emits the signal; the body of the
\* task, T1, begins with waitSignal()
RendezvousNext ==
    \/ \E c \in {"T2"}, ok \in BOOLEAN : OSTask_initStart(c, ok)
    \/ \E c \in {"T2"} : OSTask_initStore(c)
    \/ \E c \in {"T2"} : \E w \in Woken(c) : OSTask_emitSignal(c, w)
    \/ \E c \in {"T1"} : OSTask_waitSignal(c, portMAX_DELAY_MS)
    \/ \E c \in {"T1"} : OSTask_notified(c)
    \/ \E c \in {"T1"} : OSTask_waitRetry(c)

\* fair scheduling: setup() goes on, the task runs when it can, the kernel wakes a
\* notified task
SpecRendezvous ==
    /\ SignalInit /\ [][RendezvousNext]_vars
    /\ WF_vars(OSTask_initStore("T2"))
    /\ WF_vars(OSTask_emitSignal("T2", FALSE))
    /\ WF_vars(OSTask_waitSignal("T1", portMAX_DELAY_MS))
    /\ WF_vars(OSTask_notified("T1"))

\* C22: once init() has created the task, the emitSignal() of setup() lets the
\* task, whose body begins with waitSignal(), proceed under every interleaving
\* and fair scheduling: the task returns from waitSignal and enters its loop.
C22_Rendezvous ==
    kTask.exists ~> (call.op = "waitSignal" /\ call.ctx = "T1" /\ call.st = "returned")

-----------------------------------------------------------------------------
(* C23, C24: tasks sharing one OSMutex, as QueueCreation.ino uses it *)

MutexInit == Init /\ wrapper = "OSMutex"

\* init() runs while no task is inside lock()/unlock()
MutexSetup(c, ok) == kMutex.holder = "none" /\ OSMutex_init(c, ok)

\* a task gives the mutex back only after its own successful lock()
MutexRelease(c) == kMutex.holder = c /\ OSMutex_unlock(c)

MutexNext ==
    \/ \E c \in {"T1"}, ok \in BOOLEAN : MutexSetup(c, ok)
    \/ \E c \in Tasks, ms \in WaitMs : OSMutex_lock(c, ms)
    \/ \E c \in Tasks : MutexRelease(c)
    \/ \E c \in Tasks : OSMutex_unblock(c)
    \/ \E c \in Tasks : KernelTimeout(c)

SpecMutex == MutexInit /\ [][MutexNext]_vars

\* C23: mutual exclusion. A lock() returns true only when no task is between
\* its successful lock() and its unlock(), and the mutex then stays with that
\* task until its own unlock(): at most one task is inside at a time.
C23_MutualExclusion ==
    /\ [][(call' # call /\ call'.op = "lock" /\ call'.st = "returned" /\ call'.res)
             => (kMutex.holder = "none" /\ kMutex'.holder = call'.ctx)]_vars
    /\ [][(kMutex.holder # "none" /\ kMutex'.holder # kMutex.holder)
             => (call'.op = "unlock" /\ call'.ctx = kMutex.holder /\ call'.res
                 /\ kMutex'.holder = "none")]_vars

\* C23 case: T2 was refused the mutex while T1 holds it
C23_Reached ==
    /\ kMutex.holder = "T1"
    /\ call.op = "lock" /\ call.ctx = "T2" /\ call.st = "returned" /\ ~call.res

\* C24: the mutex is not reentrant. A lock() by the task that holds the mutex
\* blocks when its wait is not zero and never returns true; after it has returned
\* false the task still holds the mutex, and one unlock() by the holder
\* releases it.
C24_NotReentrant ==
    [][/\ (call' # call /\ call'.op = "lock" /\ call'.ctx = kMutex.holder) =>
            /\ kMutex'.holder = kMutex.holder
            /\ call'.st \in {"blocked", "returned"}
            /\ (call'.st = "returned" => ~call'.res)
            /\ (pend[call'.ctx].st = "idle" /\ call'.kcalls[1].ticks # 0
                    => call'.st = "blocked")
       /\ (call' # call /\ call'.op = "unlock" /\ call'.ctx = kMutex.holder) =>
            (call'.st = "returned" /\ call'.res /\ kMutex'.holder = "none")]_vars

\* C24 case: the second lock() of the holder T1 waited and returned false
C24_Reached ==
    /\ kMutex.holder = "T1"
    /\ call.op = "lock" /\ call.ctx = "T1" /\ call.st = "returned" /\ ~call.res
    /\ call.kcalls[1].ticks # 0

-----------------------------------------------------------------------------
(* C25: a task waiting in receive() for the items other contexts send *)

\* T1 receives with the default wait; setup and the sends come from T2 and
\* from the interrupt
QueueWaitNext ==
    \/ \E c \in {"T2"}, ok \in BOOLEAN : OSQueue_init(c, ok)
    \/ \E c \in {"T1"} : OSQueue_receive(c, NoVal, portMAX_DELAY_MS, FALSE)
    \/ \E c \in {"T2", ISR} : \E val \in Vals, ms \in WaitMs, w \in Woken(c) :
          OSQueue_send(c, val, ms, w)
    \/ \E c \in Tasks : OSQueue_unblock(c)
    \/ \E c \in Tasks : KernelTimeout(c)

\* fair scheduling: the kernel runs a task whose wait is over
SpecQueueWait ==
    /\ FifoInit /\ [][QueueWaitNext]_vars
    /\ WF_vars(OSQueue_unblock("T1"))

\* T1 is blocked in receive() with the default wait
ReceiveWaiting == pend["T1"].st = "blocked" /\ pend["T1"].op = "receive"

\* once an item is in the queue the waiting receive() returns true
C25_WakesOnSend ==
    (ReceiveWaiting /\ kQueue.items # <<>>)
        ~> (call.op = "receive" /\ call.ctx = "T1" /\ call.st = "returned" /\ call.res)

\* C25: a task blocked in receive() with the default wait on an empty queue
\* stays blocked while the queue stays empty, and once another task or the
\* interrupt has sent an item it eventually returns true with that item.
C25_BlockedUntilSend ==
    /\ [][(ReceiveWaiting /\ kQueue.items = <<>> /\ kQueue'.items = <<>>)
             => pend'["T1"].st = "blocked"]_vars
    /\ [][(ReceiveWaiting /\ pend'["T1"].st = "idle" /\ kQueue.items # <<>>)
             => (call'.res /\ call'.out = Head(kQueue.items))]_vars
    /\ C25_WakesOnSend

-----------------------------------------------------------------------------
(* C26: the fixed-rate loop: syncWaitInit(); for (;;) { ...; syncWait(p); } *)

\* the tick interrupt readies the task whose wake time has come, and the task
\* runs before the next tick
SyncTick ==
    /\ \A c \in Tasks : ~ENABLED OSTask_delayElapsed(c)
    /\ Tick(MaxSyncTick)

\* the loop of T1 with a period of 2 ms; T2 creates the task
SyncNext ==
    \/ \E c \in {"T2"}, ok \in BOOLEAN : OSTask_init(c, ok)
    \/ \E c \in {"T1"} : OSTask_syncWaitInit(c)
    \/ \E c \in {"T1"} : OSTask_syncWait(c, 2, MaxSyncTick)
    \/ \E c \in {"T1"} : OSTask_delayElapsed(c)
    \/ SyncTick

SpecSync == SignalInit /\ [][SyncNext]_vars

\* C26: each call of syncWait(p) advances the stored last-wake time by exactly
\* ticks(p), whatever the tick of the call, and a call made before that wake
\* time returns at the tick equal to it: counted from the tick t0 stored by
\* syncWaitInit() the k-th return is at t0 + k * ticks(p), without drift.
C26_FixedRate ==
    /\ [][(call' # call /\ call'.op = "syncWait" /\ pend["T1"].st = "idle"
            /\ call'.st \in {"blocked", "returned"})
             => task'.m_xLastWakeTime
                  = (task.m_xLastWakeTime + pdMS_TO_TICKS(2)) % TickMod]_vars
    /\ [][(pend["T1"].st = "blocked" /\ pend["T1"].op = "syncWait"
            /\ pend'["T1"].st = "idle")
             => (/\ call'.op = "syncWait" /\ call'.st = "returned"
                 /\ kTask'.xTickCount = task'.m_xLastWakeTime
                 /\ task'.m_xLastWakeTime = task.m_xLastWakeTime)]_vars
    /\ [][(call' # call /\ call'.op = "syncWait" /\ pend["T1"].st = "idle"
            /\ call'.st = "returned")
             => kTask.xTickCount >= task'.m_xLastWakeTime]_vars

\* C26 case: a syncWait(2) has returned at tick 6, the wake time it stored
C26_Reached ==
    /\ call.op = "syncWait" /\ call.ctx = "T1" /\ call.st = "returned"
    /\ task.m_xLastWakeTime = 6 /\ kTask.xTickCount = 6

-----------------------------------------------------------------------------
(* C27: the answer of isEmpty() *)

\* C27: isEmpty() returns true only on an initialised queue that holds no
\* items; on a queue that is not initialised it returns false, never true.
C27_EmptyOnlyWhenInitialised ==
    (call.op = "isEmpty" /\ call.st = "returned" /\ call.res)
        => (queue.m_initialized /\ queue.m_xQueueHandler # NULL /\ kQueue.items = <<>>)

-----------------------------------------------------------------------------
(* C28: the allocation strategy of init() *)

\* C28: in every build the kernel create call of every primitive's init() is
\* the static one, on the storage embedded in the wrapper, exactly when
\* configSUPPORT_STATIC_ALLOCATION is 1, and the dynamic one otherwise; the
\* flag is the same for all primitives of a build, so no two of them differ.
C28_AllocationByFlag ==
    (call.op = "init" /\ call.kcalls # <<>>) =>
        /\ Len(call.kcalls) = 1
        /\ call.kcalls[1].fn \in
             (IF cfg.static
              THEN {"xQueueCreateStatic", "xSemaphoreCreateCountingStatic",
                    "xSemaphoreCreateMutexStatic", "xTimerCreateStatic",
                    "xTaskCreateStatic"}
              ELSE {"xQueueCreate", "xSemaphoreCreateCounting",
                    "xSemaphoreCreateMutex", "xTimerCreate", "xTaskCreate"})
        /\ (cfg.static /\ call.st = "returned" /\ call.out # NULL) => call.out = 1

\* C28 case: an init() has created its kernel object in a static build
C28_Reached ==
    /\ cfg.static /\ call.op = "init" /\ call.st = "returned"
    /\ call.kcalls # <<>> /\ call.out # NULL

-----------------------------------------------------------------------------
(* C29: fflush() *)

\* T1 and the interrupt fill the queue; T2 flushes it and looks at it
FlushNext ==
    \/ \E c \in {"T1"}, ok \in BOOLEAN : OSQueue_init(c, ok)
    \/ \E c \in {"T1", ISR} : \E val \in Vals, ms \in WaitMs, w \in Woken(c) :
          OSQueue_send(c, val, ms, w)
    \/ \E c \in {"T2"} : OSQueue_fflush(c)
    \/ \E c \in {"T2"} : OSQueue_isEmpty(c)
    \/ \E c \in {"T2"} : OSQueue_getFreeSpace(c)
    \/ \E c \in {"T2"} : OSQueue_receive(c, NoVal, 0, FALSE)
    \/ \E c \in Tasks : OSQueue_unblock(c)
    \/ \E c \in Tasks : KernelTimeout(c)

SpecFlush == FifoInit /\ [][FlushNext]_vars

\* C29: when fflush() has returned true on an initialised queue, whatever the
\* queue held, the queue holds nothing: the isEmpty() that follows returns
\* true, getFreeSpace() returns the configured capacity and a receive() that
\* does not wait returns false.
C29_FlushEmpties ==
    /\ []((call.op = "fflush" /\ call.st = "returned" /\ call.res) =>
            /\ kQueue.items = <<>>
            /\ uxQueueSpacesAvailable(kQueue) = queue.m_xQueueSize)
    /\ [][(call.op = "fflush" /\ call.st = "returned" /\ call.res
            /\ call' # call /\ call'.ctx = "T2") =>
            /\ call'.st = "returned"
            /\ call'.op = "isEmpty" => call'.res
            /\ call'.op = "getFreeSpace" => call'.out = queue.m_xQueueSize
            /\ call'.op = "receive" => ~call'.res]_vars

\* C29 case: fflush() has returned true on a queue that was full, a sender is
\* still waiting for room
C29_Reached ==
    /\ call.op = "fflush" /\ call.st = "returned" /\ call.res
    /\ pend["T1"].st = "blocked" /\ pend["T1"].fn = "xQueueSend"

-----------------------------------------------------------------------------
(* C30: configuration before init() *)

\* C30: on a primitive that is not initialised a setter that returns has
\* succeeded and the value it wrote is the one stored and read back:
\* setSize(n) leaves n as the size, setName(n) leaves n as the name. init()
\* creates the kernel object from the stored configuration: the queue has the
\* length last set, so it accepts sends that do not wait exactly until it
\* holds that many items, and isEmpty() is true exactly when it holds none.
C30_LastWriteWins ==
    /\ (call.op = "setSize" /\ call.st = "returned" /\ ~queue.m_initialized) =>
          (call.res /\ queue.m_xQueueSize = call.arg)
    /\ (call.op = "setName" /\ call.st = "returned" /\ wrapper = "OSTask"
          /\ ~task.m_initialized) =>
          (call.res /\ task.m_TaskName = "renamed")
    /\ (call.op = "setName" /\ call.st = "returned" /\ wrapper = "OSTimer"
          /\ ~timer.m_initialized) =>
          (call.res /\ timer.m_TimerName = "renamed")
    /\ (wrapper = "OSQueue" /\ queue.m_initialized /\ queue.m_xQueueHandler # NULL) =>
          /\ kQueue.exists /\ kQueue.uxLength = queue.m_xQueueSize
          /\ Len(kQueue.items) <= queue.m_xQueueSize
          /\ (call.op = "init" /\ call.st = "returned") => kQueue.items = <<>>
          /\ (call.op = "send" /\ call.st = "returned" /\ call.kcalls[1].ticks \in {0, NoTicks}) =>
                IF call.res THEN Len(kQueue.items) >= 1
                ELSE Len(kQueue.items) = queue.m_xQueueSize
          /\ (call.op = "isEmpty" /\ call.st = "returned") =>
                (call.res <=> kQueue.items = <<>>)

\* C30 case: after setSize(1) and init() the queue took one item and refused the
\* second send, which did not wait
C30_Reached ==
    /\ queue.m_initialized /\ queue.m_xQueueSize = 1 /\ Len(kQueue.items) = 1
    /\ call.op = "send" /\ call.st = "returned" /\ ~call.res
    /\ call.kcalls[1].ticks \in {0, NoTicks}

-----------------------------------------------------------------------------
(* C31: the initialised flag and the handle *)

\* C31: with assertions compiled out, in every state of a live wrapper the
\* initialised flag is true exactly when the handle is not null, whatever
\* init() calls, allocation outcomes and operations came before; init() has
\* never returned true while the handle is null.
C31_FlagIffHandle ==
    (live /\ ~cfg.assert) =>
        /\ Initialized <=> Handle # NULL
        /\ (call.op = "init" /\ call.st = "returned" /\ call.res) => Handle # NULL

-----------------------------------------------------------------------------
(* C32: the length of a queue created on the embedded storage *)

\* C32: with static allocation the length init() hands to the kernel is never
\* more than the QueueSize elements of the storage array of the wrapper,
\* whatever setSize() calls came before init().
C32_LengthWithinStorage ==
    (wrapper = "OSQueue" /\ cfg.static /\ kQueue.exists) => kQueue.uxLength <= QueueSize

-----------------------------------------------------------------------------
(* C33: the two commands of start() *)

\* C33: start(p) returns true only if both of its commands were accepted:
\* whatever the timer service task does meanwhile, start() has not returned true
\* when its change-period command found the command queue full and was
\* rejected.
C33_StartNeedsBothCommands ==
    [][(call' # call /\ call'.op = "start" /\ call'.st = "returned" /\ call'.pre
          /\ call'.res) =>
        xTimerGenericCommand(kTimer, "changePeriod", pdMS_TO_TICKS(call'.arg), 0).res]_vars

-----------------------------------------------------------------------------
(* C34: the default wait *)

\* C34: the default wait argument portMAX_DELAY_MS, converted to ticks as every
\* blocking operation converts it, is the wait-forever value portMAX_DELAY of
\* the kernel: the receive() of T1, which is called with the default wait, hands
\* portMAX_DELAY to xQueueReceive and never returns false because its wait
\* has elapsed.
C34_DefaultWaitIsForever ==
    (call.op = "receive" /\ call.ctx = "T1" /\ call.kcalls # <<>>) =>
        /\ call.kcalls[1].ticks = pdMS_TO_TICKS(portMAX_DELAY_MS)
        /\ pdMS_TO_TICKS(portMAX_DELAY_MS) = portMAX_DELAY
        /\ call.st = "returned" => call.res

-----------------------------------------------------------------------------
(* C35: the C++17 and the pre-C++17 variant of a dispatched operation *)

\* C35: the build with execIsrFunc and the build with the explicit if/else are
\* observably the same: the kernel calls of an operation and their arguments do
\* not depend on the variant. In a task take(ms) hands xSemaphoreTake the wait
\* converted to ticks and reset() takes without waiting, in both builds; each
\* call asks for a reschedule exactly when the kernel reported a woken task.
C35_VariantsEquivalent ==
    (wrapper = "Counter" /\ call.kcalls # <<>> /\ call.op \in {"take", "give", "reset"}) =>
        /\ (call.op = "take" /\ call.ctx \in Tasks) =>
              call.kcalls[1].ticks \in {pdMS_TO_TICKS(ms) : ms \in WaitMs}
        /\ (call.op = "reset" /\ call.ctx \in Tasks) =>
              \A i \in DOMAIN call.kcalls : call.kcalls[i].ticks = 0
        /\ call.st = "returned" => call.yields = (IF call.woken THEN 1 ELSE 0)

-----------------------------------------------------------------------------
(* C36: an operation that fails at run time *)

\* C36: a send() that returns false leaves the items of the queue and their
\* order as they were; a receive() or peek() that returns false leaves the queue
\* and the destination variable of the caller as they were; a take() or give()
\* that returns false leaves the count as it was.
C36_FailureChangesNothing ==
    [][(call' # call /\ call'.st = "returned" /\ ~call'.res) =>
        /\ call'.op \in {"send", "receive", "peek"} => kQueue' = kQueue
        /\ call'.op \in {"receive", "peek"} => call'.out = call'.arg
        /\ call'.op \in {"take", "give"} => kSem' = kSem]_vars

\* C36 case: a send from the interrupt was refused by the full queue, which still
\* holds what it held
C36_Reached ==
    /\ call.op = "send" /\ call.ctx = ISR /\ call.st = "returned" /\ call.pre
    /\ ~call.res /\ Len(kQueue.items) = kQueue.uxLength /\ kQueue.uxLength > 0

-----------------------------------------------------------------------------
(* C37: the operations without a dispatch, called in an interrupt *)

\* C37: no operation called in interrupt context suspends or makes a kernel
\* call that is for tasks only: OSTask::stop, OSQueue::isEmpty, getFreeSpace and
\* fflush and OSTimer::isActive, called in an interrupt, either fail before any
\* kernel call or make ISR-safe kernel calls only.
C37_IsrSafeWithoutDispatch ==
    (call.ctx = ISR /\ call.op \in {"stop", "isEmpty", "getFreeSpace", "fflush", "isActive"}) =>
        /\ call.st \in {"returned", "asserted"}
        /\ \A i \in DOMAIN call.kcalls : call.kcalls[i].fn \in FromISRCalls

====
